---- MODULE Spec2Model ----
(***************************************************************************)
(* Execution-trace reference resolution and flow reconstruction of the     *)
(* hyly extension: the PL/pgSQL persister (01-hyly.sql), the x-ray report  *)
(* (n8nwf-96-exec-xray.sh) and the API client's path analysis.             *)
(*                                                                         *)
(* JSON values are tagged tuples:                                          *)
(*   <<"null">>  <<"bool", b>>  <<"num", n>>  <<"str", chars>>             *)
(*   <<"arr", <<v1, ..., vn>> >>   <<"obj", << <<key, v>>, ... >> >>       *)
(* where chars and key are sequences of one-character strings, so that a   *)
(* regular expression, a cast or a substring test is computed on the       *)
(* characters.  SQL NULL is <<"NULL">>, JavaScript undefined <<"undef">>.  *)
(***************************************************************************)
EXTENDS Integers, Sequences, FiniteSets, TLC

VARIABLES
  execution_data,          \* public.execution_data: executionId -> data (jsonb) or SQL NULL
  execution_backtrace,     \* hyly.execution_backtrace: set of rows
  temp_execution_results,  \* hyly.temp_execution_results: set of rows
  result,                  \* what the most recent call returned or raised
  call,                    \* the arguments of a pure function under test
  race,                    \* two persist operations running statement by statement
  execution_entity,        \* public.execution_entity joined with the tags of its workflow
  script                   \* one run of n8nwf-02-execute.sh: its position and its variables

vars == <<execution_data, execution_backtrace, temp_execution_results, result, call, race,
          execution_entity, script>>

(***************************************************************************)
(* Values                                                                  *)
(***************************************************************************)
JNull == <<"null">>
SqlNull == <<"NULL">>
Undefined == <<"undef">>
JNum(n) == <<"num", n>>
JStr(cs) == <<"str", cs>>
JArr(vs) == <<"arr", vs>>
JObj(ps) == <<"obj", ps>>
JBool(b) == <<"bool", b>>

Tag(v) == v[1]
IsStr(v) == Tag(v) = "str"
IsArr(v) == Tag(v) = "arr"
IsObj(v) == Tag(v) = "obj"
IsNum(v) == Tag(v) = "num"

DigitChars == <<"0", "1", "2", "3", "4", "5", "6", "7", "8", "9">>
Digits == {DigitChars[k] : k \in 1..10}
DigitVal(c) == (CHOOSE k \in 1..10 : DigitChars[k] = c) - 1

\* the regular expressions '^\d+$', '^[0-9]+$' and /^\d+$/
IsDigitStr(cs) == Len(cs) > 0 /\ \A k \in 1..Len(cs) : cs[k] \in Digits

RECURSIVE StripZeros(_)
StripZeros(cs) ==
  IF Len(cs) > 1 /\ cs[1] = "0" THEN StripZeros(Tail(cs)) ELSE cs

RECURSIVE Dec(_)
\* decimal text of a natural number
Dec(n) == IF n < 10 THEN <<DigitChars[n + 1]>>
          ELSE Dec(n \div 10) \o <<DigitChars[(n % 10) + 1]>>

RECURSIVE LexLeq(_, _)
\* digit strings of equal length compared as numbers
LexLeq(a, b) ==
  IF Len(a) = 0 THEN TRUE
  ELSE IF DigitVal(a[1]) < DigitVal(b[1]) THEN TRUE
  ELSE IF DigitVal(a[1]) > DigitVal(b[1]) THEN FALSE
  ELSE LexLeq(Tail(a), Tail(b))

NatLeq(a, b) ==
  LET x == StripZeros(a)
      y == StripZeros(b)
  IN IF Len(x) # Len(y) THEN Len(x) < Len(y) ELSE LexLeq(x, y)

BigintMax == <<"9","2","2","3","3","7","2","0","3","6","8","5","4","7","7","5","8","0","7">>
Int4Max == <<"2","1","4","7","4","8","3","6","4","7">>

\* A value that stands for every in-range integer with more than ExactDigits
\* significant digits: larger than every array length and every start time
\* of the model.
ExactDigits == 6
Huge == 1000000

RECURSIVE DigitsValue(_, _)
DigitsValue(cs, acc) ==
  IF Len(cs) = 0 THEN acc ELSE DigitsValue(Tail(cs), acc * 10 + DigitVal(cs[1]))

NatValue(cs) ==
  LET x == StripZeros(cs)
  IN IF Len(x) > ExactDigits THEN Huge ELSE DigitsValue(x, 0)


(***************************************************************************)
(* PostgreSQL: jsonb operators and casts used by 01-hyly.sql.              *)
(* A text is <<"text", chars>>, an integer <<"int", n>>, a raised          *)
(* exception <<"error", message>>; every type also has SqlNull.            *)
(***************************************************************************)
Text(cs) == <<"text", cs>>
SqlInt(n) == <<"int", n>>
Error(msg) == <<"error", msg>>
IsError(v) == Tag(v) = "error"
IsSqlNull(v) == Tag(v) = "NULL"

RECURSIVE JsonbOut(_)
RECURSIVE JsonbOutSeq(_, _)
\* jsonb_out: the text form of a jsonb value
JsonbOut(v) ==
  CASE Tag(v) = "null" -> <<"n", "u", "l", "l">>
    [] Tag(v) = "bool" -> IF v[2] THEN <<"t", "r", "u", "e">> ELSE <<"f", "a", "l", "s", "e">>
    [] Tag(v) = "num" -> IF v[2] < 0 THEN <<"-">> \o Dec(0 - v[2]) ELSE Dec(v[2])
    [] Tag(v) = "str" -> <<"\"">> \o v[2] \o <<"\"">>
    [] Tag(v) = "arr" -> <<"[">> \o JsonbOutSeq(v[2], FALSE) \o <<"]">>
    [] Tag(v) = "obj" -> <<"{">> \o JsonbOutSeq(v[2], TRUE) \o <<"}">>
JsonbOutSeq(vs, keyed) ==
  IF Len(vs) = 0 THEN <<>>
  ELSE LET one == IF keyed
                  THEN <<"\"">> \o vs[1][1] \o <<"\"", ":", " ">> \o JsonbOut(vs[1][2])
                  ELSE JsonbOut(vs[1])
       IN IF Len(vs) = 1 THEN one
          ELSE one \o <<",", " ">> \o JsonbOutSeq(Tail(vs), keyed)

\* jsonb #>> '{}' and the text side of ->> : a string gives its characters,
\* JSON null gives SQL NULL, anything else its text form
JsonbText(j) ==
  IF IsSqlNull(j) \/ Tag(j) = "null" THEN SqlNull
  ELSE IF IsStr(j) THEN Text(j[2])
  ELSE Text(JsonbOut(j))

HasKey(ps, key) == \E k \in 1..Len(ps) : ps[k][1] = key
\* a JSON object keeps one value per key: the last one given wins
Lookup(ps, key) == ps[CHOOSE k \in 1..Len(ps) :
                        /\ ps[k][1] = key
                        /\ \A m \in (k + 1)..Len(ps) : ps[m][1] # key][2]

\* jsonb -> text (jsonb_object_field): NULL unless the left side is an object
\* that has the key
JsonbObjectField(j, key) ==
  IF IsSqlNull(j) THEN SqlNull
  ELSE IF IsObj(j) /\ HasKey(j[2], key) THEN Lookup(j[2], key)
  ELSE SqlNull

\* jsonb ->> text (jsonb_object_field_text).  A quoted literal such as '0'
\* on the right of ->> is of type unknown and resolves to this text
\* operator, never to the integer one.
JsonbObjectFieldText(j, key) == JsonbText(JsonbObjectField(j, key))

\* jsonb -> integer (jsonb_array_element): NULL unless the left side is an
\* array and the index is in range; a negative index counts from the end
JsonbArrayElement(j, i) ==
  IF IsSqlNull(j) \/ IsSqlNull(i) THEN SqlNull
  ELSE IF ~IsArr(j) THEN SqlNull
  ELSE LET n == Len(j[2])
           k == IF i[2] < 0 THEN i[2] + n ELSE i[2]
       IN IF k >= 0 /\ k < n THEN j[2][k + 1] ELSE SqlNull

\* jsonb ->> integer (jsonb_array_element_text)
JsonbArrayElementText(j, i) == JsonbText(JsonbArrayElement(j, i))

\* jsonb ? text: top-level key of an object, string element of an array,
\* or a string scalar equal to the text
JsonbExists(j, key) ==
  IF IsSqlNull(j) THEN SqlNull
  ELSE IF IsObj(j) THEN JBool(HasKey(j[2], key))
  ELSE IF IsArr(j) THEN JBool(\E k \in 1..Len(j[2]) : j[2][k] = JStr(key))
  ELSE JBool(j = JStr(key))

\* jsonb_array_length: strict; raises on a value that is not an array
jsonb_array_length(j) ==
  IF IsSqlNull(j) THEN SqlNull
  ELSE IF IsArr(j) THEN SqlInt(Len(j[2]))
  ELSE Error("cannot get array length of a non-array")

\* text::int and text::bigint, for the texts of the model (digits with an
\* optional minus sign): a value, or an exception when the text is not a
\* number or the number does not fit the type
CastInteger(t, max, typename) ==
  IF IsSqlNull(t) THEN SqlNull
  ELSE LET cs == t[2]
           neg == Len(cs) > 1 /\ cs[1] = "-"
           ds == IF neg THEN Tail(cs) ELSE cs
       IN IF ~IsDigitStr(ds) THEN Error("invalid input syntax for type " \o typename)
          ELSE IF ~NatLeq(ds, max) THEN Error("value out of range for type " \o typename)
          ELSE SqlInt(IF neg THEN 0 - NatValue(ds) ELSE NatValue(ds))

CastInt(t) == CastInteger(t, Int4Max, "integer")
CastBigint(t) == CastInteger(t, BigintMax, "bigint")

\* a boolean test of IF: NULL counts as not true
IsTrue(b) == b = JBool(TRUE)


(***************************************************************************)
(* hyly._resolve_exec_val                                                  *)
(***************************************************************************)
Ok(v) == <<"ok", v>>
IsOk(r) == Tag(r) = "ok"
\* the LOOP never exits: the call does not return
Loops == <<"loop">>

RECURSIVE ResolveLoop(_, _, _)
\* LOOP ... END LOOP of _resolve_exec_val.  hops counts the CONTINUEs still
\* possible without visiting a slot twice; one more means the chain has
\* closed on itself and the loop runs forever.
ResolveLoop(val, exec_arr, hops) ==
  IF ~IsSqlNull(val) /\ IsStr(val) /\ IsDigitStr(val[2])
  THEN LET s == val[2]
           i == CastBigint(Text(s))
           len == jsonb_array_length(exec_arr)
       IN IF IsError(i) THEN i
          ELSE IF ~IsSqlNull(len) /\ i[2] >= 0 /\ i[2] < len[2]
               THEN IF hops = 0 THEN Loops
                    ELSE ResolveLoop(JsonbArrayElement(exec_arr, i), exec_arr, hops - 1)
               ELSE Ok(JStr(s))
  ELSE Ok(val)

\* the function without its CONTINUE: one pointer followed, then RETURN
_resolve_exec_val_OneHop(val, exec_arr) ==
  IF IsSqlNull(exec_arr) \/ ~IsArr(exec_arr) THEN Ok(val)
  ELSE IF ~IsSqlNull(val) /\ IsStr(val) /\ IsDigitStr(val[2])
  THEN LET i == CastBigint(Text(val[2]))
       IN IF IsError(i) THEN i
          ELSE IF i[2] < Len(exec_arr[2]) THEN Ok(JsonbArrayElement(exec_arr, i))
          ELSE Ok(val)
  ELSE Ok(val)

_resolve_exec_val(val, exec_arr) ==
  IF ~IsSqlNull(exec_arr) /\ ~IsArr(exec_arr) THEN Ok(val)
  ELSE ResolveLoop(val, exec_arr, IF IsSqlNull(exec_arr) THEN 0 ELSE Len(exec_arr[2]))

(***************************************************************************)
(* Names and texts of the model                                            *)
(***************************************************************************)
K_runData == <<"r", "u", "n", "D", "a", "t", "a">>
K_startTime == <<"s", "t", "a", "r", "t", "T", "i", "m", "e">>
K_executionTime == <<"e", "x", "e", "c", "u", "t", "i", "o", "n", "T", "i", "m", "e">>
K_executionStatus == <<"e", "x", "e", "c", "u", "t", "i", "o", "n", "S", "t", "a", "t", "u", "s">>
K_data == <<"d", "a", "t", "a">>
K_inputData == <<"i", "n", "p", "u", "t", "D", "a", "t", "a">>
K_main == <<"m", "a", "i", "n">>
K_json == <<"j", "s", "o", "n">>
K_id == <<"i", "d">>
K_headers == <<"h", "e", "a", "d", "e", "r", "s">>
K_zero == <<"0">>
T_success == <<"s", "u", "c", "c", "e", "s", "s">>
T_error == <<"e", "r", "r", "o", "r">>
\* the smallest digit string that does not fit bigint
T_overflow == <<"9","2","2","3","3","7","2","0","3","6","8","5","4","7","7","5","8","0","8">>
T_word == <<"a", "b">>

None == <<"none">>
ExecIds == {1, 2}

(***************************************************************************)
(* Specification of the resolver as a pure function                        *)
(***************************************************************************)
MaxArena == 2

\* strings a slot or an argument may hold: the pointers 0..MaxArena+1, a
\* pointer with leading zeros, the largest bigint, the first text beyond it,
\* and a word
ResolveStrings ==
  {Dec(k) : k \in 0..(MaxArena + 1)} \cup {<<"0", "1">>, BigintMax, T_overflow, T_word}

ResolveSlots ==
  {JStr(cs) : cs \in ResolveStrings}
    \cup {JObj(<< <<K_json, JStr(Dec(k))>> >>) : k \in 0..MaxArena}
    \cup {JArr(<<JStr(Dec(0)), JNum(7)>>), JNum(7)}

ResolveArenas ==
  UNION {[1..n -> ResolveSlots] : n \in 0..MaxArena}

DbInit ==
  /\ execution_data = [x \in ExecIds |-> SqlNull]
  /\ execution_backtrace = {}
  /\ temp_execution_results = {}
  /\ race = None
  /\ execution_entity = None
  /\ script = None


(***************************************************************************)
(* Claims about the resolver                                               *)
(***************************************************************************)
\* the digit-only string cs denotes an index of an arena of length n
IndexesSlot(cs, n) == \E k \in 0..(n - 1) : StripZeros(cs) = Dec(k)

RECURSIVE ChainEnd(_, _, _)
\* the value at the end of the chain of in-bounds pointers that starts at v
ChainEnd(v, arena, hops) ==
  IF IsStr(v) /\ IsDigitStr(v[2]) /\ IndexesSlot(v[2], Len(arena)) /\ hops > 0
  THEN ChainEnd(arena[NatValue(v[2]) + 1], arena, hops - 1)
  ELSE v

RECURSIVE HasInBoundsPointer(_, _)
\* some digit-only string nested in v, at any depth, indexes a slot
HasInBoundsPointer(v, n) ==
  CASE IsStr(v) -> IsDigitStr(v[2]) /\ IndexesSlot(v[2], n)
    [] IsArr(v) -> \E k \in 1..Len(v[2]) : HasInBoundsPointer(v[2][k], n)
    [] IsObj(v) -> \E k \in 1..Len(v[2]) : HasInBoundsPointer(v[2][k][2], n)
    [] OTHER -> FALSE

Resolved == call[1] = "_resolve_exec_val" /\ result # None

\* C8: for an arena of length N, a digit-only string whose value is >= N,
\* given directly or reached at the end of a chain of in-bounds pointers, is
\* returned unchanged and no error is raised.
C8_OutOfBoundsFallback ==
  Resolved =>
    LET arena == call[3][2]
        end == ChainEnd(call[2], arena, Len(arena))
    IN (IsStr(end) /\ IsDigitStr(end[2]) /\ ~IndexesSlot(end[2], Len(arena)))
         => result = Ok(end)

\* C10: the resolved form of an output item holds no digit-only string, at
\* any depth, that indexes a valid arena slot.
C10_OutputFullyResolved ==
  (Resolved /\ IsOk(result) /\ IsObj(call[2]))
    => ~HasInBoundsPointer(result[2], Len(call[3][2]))


(***************************************************************************)
(* JavaScript of n8nwf-96-exec-xray.sh (the node -e program)               *)
(***************************************************************************)
\* a thrown exception, which unwinds to the try/catch of the program
Thrown == <<"throw">>

\* !v
Falsy(v) ==
  \/ v = Undefined
  \/ v = JNull
  \/ v = JBool(FALSE)
  \/ v = JNum(0)
  \/ v = JStr(<<>>)

\* v[key] and v.key for a value v that is neither null nor undefined
JsGet(v, key) ==
  IF IsObj(v) THEN (IF HasKey(v[2], key) THEN Lookup(v[2], key) ELSE Undefined)
  ELSE IF IsArr(v) /\ IsDigitStr(key) /\ StripZeros(key) = key
          /\ IndexesSlot(key, Len(v[2]))
       THEN v[2][NatValue(key) + 1]
  ELSE IF IsStr(v) /\ IsDigitStr(key) /\ StripZeros(key) = key
          /\ IndexesSlot(key, Len(v[2]))
       THEN JStr(<<v[2][NatValue(key) + 1]>>)
  ELSE Undefined

RECURSIVE Includes(_, _)
\* String.prototype.includes
Includes(text, part) ==
  IF Len(text) < Len(part) THEN FALSE
  ELSE IF SubSeq(text, 1, Len(part)) = part THEN TRUE
  ELSE Includes(Tail(text), part)

HeadersDot == K_headers \o <<".">>

RECURSIVE resolveStringReferences(_, _, _, _)
RECURSIVE ResolveFields(_, _, _, _)
RECURSIVE ResolveItems(_, _, _, _)
\* resolveStringReferences(obj, data, path); depth counts the dereferences
\* still possible without visiting a slot twice: one more recurses without
\* end until the call stack overflows (RangeError)
resolveStringReferences(obj, data, path, depth) ==
  IF IsStr(obj) /\ IsDigitStr(obj[2])
  THEN IF Includes(path, HeadersDot) THEN obj
       ELSE IF depth = 0 /\ IndexesSlot(obj[2], Len(data)) THEN Thrown
       ELSE resolveStringReferences(
              IF IndexesSlot(obj[2], Len(data)) THEN data[NatValue(obj[2]) + 1] ELSE Undefined,
              data, path, depth - 1)
  ELSE IF IsObj(obj) THEN ResolveFields(obj[2], data, path, depth)
  ELSE IF IsArr(obj) THEN ResolveItems(obj[2], data, path, depth)
  ELSE obj
ResolveFields(ps, data, path, depth) ==
  IF Len(ps) = 0 THEN JObj(<<>>)
  ELSE LET key == ps[1][1]
           newPath == IF Len(path) > 0 THEN path \o <<".">> \o key ELSE key
           first == resolveStringReferences(ps[1][2], data, newPath, depth)
           rest == ResolveFields(Tail(ps), data, path, depth)
       IN IF first = Thrown \/ rest = Thrown THEN Thrown
          ELSE JObj(<< <<key, first>> >> \o rest[2])
ResolveItems(vs, data, path, depth) ==
  IF Len(vs) = 0 THEN JArr(<<>>)
  ELSE LET first == resolveStringReferences(vs[1], data, path, depth)
           rest == ResolveItems(Tail(vs), data, path, depth)
       IN IF first = Thrown \/ rest = Thrown THEN Thrown
          ELSE JArr(<<first>> \o rest[2])

\* getNodeOutput / getNodeInput: the two differ only in the field they read
NodeMainData(runData, nodeName, data, field) ==
  LET nodeEntry == JsGet(runData, nodeName)
  IN IF Falsy(nodeEntry) \/ Falsy(JsGet(nodeEntry, K_zero)) THEN JNull
     ELSE LET nodeExecData == JsGet(nodeEntry, K_zero)
          IN IF Falsy(JsGet(nodeExecData, field))
                  \/ Falsy(JsGet(JsGet(nodeExecData, field), K_main)) THEN JNull
             ELSE LET mainData == JsGet(JsGet(nodeExecData, field), K_main)
                  IN IF Falsy(JsGet(mainData, K_zero)) \/ ~IsArr(JsGet(mainData, K_zero))
                     THEN JNull
                     ELSE ResolveItems(JsGet(mainData, K_zero)[2], data, <<>>, Len(data))

getNodeOutput(runData, nodeName, data) == NodeMainData(runData, nodeName, data, K_data)
getNodeInput(runData, nodeName, data) == NodeMainData(runData, nodeName, data, K_inputData)

\* x || fallback
OrElse(x, fallback) == IF Falsy(x) THEN fallback ELSE x

\* getNodeExecutionInfo: <<executionTime, startTime, executionStatus>> or null
getNodeExecutionInfo(runData, nodeName) ==
  LET nodeEntry == JsGet(runData, nodeName)
  IN IF Falsy(nodeEntry) \/ Falsy(JsGet(nodeEntry, K_zero)) THEN JNull
     ELSE LET nodeExecData == JsGet(nodeEntry, K_zero)
          IN <<OrElse(JsGet(nodeExecData, K_executionTime), JNum(0)),
               OrElse(JsGet(nodeExecData, K_startTime), JNum(0)),
               OrElse(JsGet(nodeExecData, K_executionStatus), JStr(T_success))>>


K_step == <<"s", "t", "e", "p">>
K_node_name == <<"n", "o", "d", "e", "_", "n", "a", "m", "e">>
K_input == <<"i", "n", "p", "u", "t">>
K_output == <<"o", "u", "t", "p", "u", "t">>
K_execution_time_ms == <<"e", "x", "e", "c", "u", "t", "i", "o", "n", "_", "t", "i", "m", "e", "_", "m", "s">>
K_execution_status == <<"e", "x", "e", "c", "u", "t", "i", "o", "n", "_", "s", "t", "a", "t", "u", "s">>
K_goes_to == <<"g", "o", "e", "s", "_", "t", "o">>
K_data_flow == <<"d", "a", "t", "a", "_", "f", "l", "o", "w">>
K_execution_info == <<"e", "x", "e", "c", "u", "t", "i", "o", "n", "_", "i", "n", "f", "o">>
K_execution_id == <<"e", "x", "e", "c", "u", "t", "i", "o", "n", "_", "i", "d">>
K_total_nodes == <<"t", "o", "t", "a", "l", "_", "n", "o", "d", "e", "s">>
K_total_execution_time_ms == <<"t", "o", "t", "a", "l", "_", "e", "x", "e", "c", "u", "t", "i", "o", "n", "_", "t", "i", "m", "e", "_", "m", "s">>
K_status == <<"s", "t", "a", "t", "u", "s">>
K_error == <<"e", "r", "r", "o", "r">>
K_resultData == <<"r", "e", "s", "u", "l", "t", "D", "a", "t", "a">>
T_END == <<"E", "N", "D", " ", "(", "f", "i", "n", "a", "l", " ", "w", "o", "r", "k", "f", "l", "o", "w", " ", "o", "u", "t", "p", "u", "t", ")">>
T_UNKNOWN == <<"U", "N", "K", "N", "O", "W", "N">>
T_NoNodeData == <<"N", "o", " ", "n", "o", "d", "e", " ", "e", "x", "e", "c", "u", "t", "i", "o", "n", " ", "d", "a", "t", "a", " ", "f", "o", "u", "n", "d">>
T_FailedToProcess == <<"F", "a", "i", "l", "e", "d", " ", "t", "o", " ", "p", "r", "o", "c", "e", "s", "s", " ", "e", "x", "e", "c", "u", "t", "i", "o", "n", " ", "d", "a", "t", "a">>

\* Object.keys
ObjectKeys(o) == [k \in 1..Len(o[2]) |-> o[2][k][1]]

\* a node detail is <<nodeName, input, output, startTime, executionTime, executionStatus>>
RECURSIVE CollectNodeDetails(_, _)
\* nodeNames.forEach(...) filling nodeDetails
CollectNodeDetails(runData, nodeNames) ==
  IF Len(nodeNames) = 0 THEN <<>>
  ELSE LET nodeName == nodeNames[1]
           execInfo == getNodeExecutionInfo(runData, nodeName)
           rest == CollectNodeDetails(runData, Tail(nodeNames))
       IN IF execInfo = JNull THEN rest
          ELSE << <<nodeName,
                    getNodeInput(runData, nodeName, <<>>),
                    getNodeOutput(runData, nodeName, <<>>),
                    execInfo[2], execInfo[1], execInfo[3]>> >> \o rest

RECURSIVE InsertByStartTime(_, _)
InsertByStartTime(sorted, d) ==
  IF Len(sorted) = 0 THEN <<d>>
  ELSE IF sorted[1][4][2] - d[4][2] > 0 THEN <<d>> \o sorted
  ELSE <<sorted[1]>> \o InsertByStartTime(Tail(sorted), d)

RECURSIVE SortByStartTimeFrom(_, _)
SortByStartTimeFrom(sorted, ds) ==
  IF Len(ds) = 0 THEN sorted
  ELSE SortByStartTimeFrom(InsertByStartTime(sorted, ds[1]), Tail(ds))

\* the flow built without the sort
SortByStartTime_Unsorted(ds) == ds

\* nodeDetails.sort((a, b) => a.startTime - b.startTime): a stable sort
SortByStartTime(ds) == SortByStartTimeFrom(<<>>, ds)

\* nodeDetails.map((node, index) => ({ step, node_name, ... goes_to }))
ExecutionFlow(nodeDetails) ==
  [index \in 1..Len(nodeDetails) |->
     LET node == nodeDetails[index]
     IN JObj(<< <<K_step, JNum(index)>>,
                <<K_node_name, JStr(node[1])>>,
                <<K_input, node[2]>>,
                <<K_output, node[3]>>,
                <<K_execution_time_ms, node[5]>>,
                <<K_execution_status, node[6]>>,
                <<K_goes_to,
                  IF index = Len(nodeDetails) THEN JStr(T_END)
                  ELSE OrElse(JStr(nodeDetails[index + 1][1]), JStr(T_UNKNOWN))>> >>)]

RECURSIVE SumExecutionTime(_)
SumExecutionTime(ds) ==
  IF Len(ds) = 0 THEN 0 ELSE ds[1][5][2] + SumExecutionTime(Tail(ds))

RECURSIVE Stringify(_)
\* JSON.stringify followed by a parse: a property whose value is undefined
\* is left out, an undefined array element becomes null
Stringify(v) ==
  CASE IsObj(v) ->
         LET kept == SelectSeq(v[2], LAMBDA p : p[2] # Undefined)
         IN JObj([k \in 1..Len(kept) |-> <<kept[k][1], Stringify(kept[k][2])>>])
    [] IsArr(v) ->
         JArr([k \in 1..Len(v[2]) |->
                 IF v[2][k] = Undefined THEN JNull ELSE Stringify(v[2][k])])
    [] OTHER -> v

\* executionData.data?.resultData?.runData
OptionalRunData(executionData) ==
  LET data == JsGet(executionData, K_data)
      resultData == IF data = Undefined \/ data = JNull THEN Undefined
                    ELSE JsGet(data, K_resultData)
  IN IF resultData = Undefined \/ resultData = JNull THEN Undefined
     ELSE JsGet(resultData, K_runData)

\* the node -e program: <<exit status, document printed>>; execution_info
\* also carries workflow_id, finished, started_at and stopped_at, copies of
\* fields of the downloaded document that nothing here reads
XrayProgram(executionData, EXECUTION_ID) ==
  LET runData == OrElse(OptionalRunData(executionData), JObj(<<>>))
      nodeNames == ObjectKeys(runData)
      collected == CollectNodeDetails(runData, nodeNames)
      failed == \E k \in 1..Len(collected) :
                  collected[k][2] = Thrown \/ collected[k][3] = Thrown
      nodeDetails == SortByStartTime(collected)
      xrayReport ==
        JObj(<< <<K_execution_info,
                  JObj(<< <<K_execution_id, JStr(EXECUTION_ID)>>,
                          <<K_status, OrElse(JsGet(executionData, K_status), JNull)>>,
                          <<K_total_nodes, JNum(Len(nodeDetails))>>,
                          <<K_total_execution_time_ms, JNum(SumExecutionTime(nodeDetails))>> >>)>>,
                <<K_data_flow, JArr(ExecutionFlow(nodeDetails))>> >>)
  IN IF Len(nodeNames) = 0
     THEN <<1, JObj(<< <<K_error, JStr(T_NoNodeData)>>,
                       <<K_execution_id, JStr(EXECUTION_ID)>>,
                       <<K_status, OrElse(JsGet(executionData, K_status), JNull)>> >>)>>
     ELSE IF failed
     THEN <<1, JObj(<< <<K_error, JStr(T_FailedToProcess)>>,
                       <<K_execution_id, JStr(EXECUTION_ID)>> >>)>>
     ELSE <<0, Stringify(xrayReport)>>

\* XRAY_RESULT=$(node -e ...) under set -e, then echo "$XRAY_RESULT": the
\* script stops at the assignment when node exits with 1 and prints nothing
XrayScript(executionData, EXECUTION_ID) ==
  LET node == XrayProgram(executionData, EXECUTION_ID)
  IN IF node[1] # 0 THEN <<"exit", 1, None>> ELSE <<"exit", 0, node[2]>>


(***************************************************************************)
(* The two resolvers as pure functions: a call with a value and an arena,  *)
(* then the same function applied to what the call returned                *)
(***************************************************************************)
K_word == <<"w">>
K_len == <<"l", "e", "n">>
K_xheaders == <<"x">> \o K_headers

\* values given to resolveStringReferences: a pointer, and pointers below a
\* key named headers (directly, one key deeper, in an array), below a key
\* that ends in headers, and below an ordinary key
ResolveObjects ==
  {JStr(Dec(0)),
   JObj(<< <<K_headers, JStr(Dec(0))>> >>),
   JObj(<< <<K_headers, JObj(<< <<K_len, JStr(Dec(0))>> >>)>> >>),
   JObj(<< <<K_headers, JArr(<<JStr(Dec(1))>>)>> >>),
   JObj(<< <<K_headers, JObj(<< <<K_len, JArr(<<JStr(Dec(0))>>)>> >>)>> >>),
   JObj(<< <<K_xheaders, JObj(<< <<K_len, JStr(Dec(0))>> >>)>> >>),
   JObj(<< <<K_json, JObj(<< <<K_id, JStr(Dec(1))>>, <<K_word, JStr(T_word)>> >>)>> >>)}

InitResolve ==
  /\ DbInit
  /\ result = None
  /\ \E exec_arr \in ResolveArenas :
       \/ \E val \in ResolveSlots : call = <<"_resolve_exec_val", val, JArr(exec_arr)>>
       \/ \E obj \in ResolveObjects : call = <<"resolveStringReferences", obj, JArr(exec_arr)>>

ApplyResolve ==
  /\ call[1] = "_resolve_exec_val"
  /\ result = None
  /\ result' = _resolve_exec_val(call[2], call[3])
  /\ UNCHANGED <<script, execution_entity, execution_data, execution_backtrace, temp_execution_results, call, race>>

\* resolveStringReferences(obj, data) with the default path ''
ApplyResolveJs ==
  /\ call[1] = "resolveStringReferences"
  /\ result = None
  /\ result' = resolveStringReferences(call[2], call[3][2], <<>>, Len(call[3][2]))
  /\ UNCHANGED <<script, execution_entity, execution_data, execution_backtrace, temp_execution_results, call, race>>

\* the function applied to the value its first call returned, with the
\* same arena; call keeps the first call and its result
ResolveAgain ==
  /\ call[1] \in {"_resolve_exec_val", "resolveStringReferences"}
  /\ result # None
  /\ result \notin {Loops, Thrown}
  /\ ~IsError(result)
  /\ call' = <<"again", call[1], call[2], call[3], result>>
  /\ result' = IF call[1] = "_resolve_exec_val"
                THEN _resolve_exec_val(result[2], call[3])
                ELSE resolveStringReferences(result, call[3][2], <<>>, Len(call[3][2]))
  /\ UNCHANGED <<script, execution_entity, execution_data, execution_backtrace, temp_execution_results, race>>

NextResolve ==
  \/ ApplyResolve
  \/ ApplyResolveJs
  \/ ResolveAgain

SpecResolve == InitResolve /\ [][NextResolve]_vars

RECURSIVE KeptBelowHeaders(_, _, _)
\* every digit-only string of in that lies below a key named headers is at
\* the same place in out
KeptBelowHeaders(in, out, below) ==
  CASE IsStr(in) -> (IsDigitStr(in[2]) /\ below) => out = in
    [] IsObj(in) ->
         /\ IsObj(out) /\ Len(out[2]) = Len(in[2])
         /\ \A k \in 1..Len(in[2]) :
              KeptBelowHeaders(in[2][k][2], out[2][k][2], below \/ in[2][k][1] = K_headers)
    [] IsArr(in) ->
         /\ IsArr(out) /\ Len(out[2]) = Len(in[2])
         /\ \A k \in 1..Len(in[2]) : KeptBelowHeaders(in[2][k], out[2][k], below)
    [] OTHER -> TRUE

RECURSIVE ResolvedElsewhere(_, _, _)
\* no digit-only string of in that lies below no key named headers is left
\* as it was in out
ResolvedElsewhere(in, out, below) ==
  CASE IsStr(in) -> (IsDigitStr(in[2]) /\ ~below) => out # in
    [] IsObj(in) ->
         /\ IsObj(out) /\ Len(out[2]) = Len(in[2])
         /\ \A k \in 1..Len(in[2]) :
              ResolvedElsewhere(in[2][k][2], out[2][k][2], below \/ in[2][k][1] = K_headers)
    [] IsArr(in) ->
         /\ IsArr(out) /\ Len(out[2]) = Len(in[2])
         /\ \A k \in 1..Len(in[2]) : ResolvedElsewhere(in[2][k], out[2][k], below)
    [] OTHER -> TRUE

ResolvedJs == call[1] = "resolveStringReferences" /\ result # None /\ result # Thrown

\* C11: resolveStringReferences returns unchanged every digit-only string
\* below a key named headers (its direct value, a deeper field, an array
\* element), and resolves every digit-only string below no such key.
C11_HeadersExempt ==
  ResolvedJs =>
    /\ KeptBelowHeaders(call[2], result, FALSE)
    /\ ResolvedElsewhere(call[2], result, FALSE)

\* C12: resolution terminates on every input: on an arena whose pointers
\* form a cycle neither resolver loops without end or recurses until the
\* call stack overflows.
C12_ResolutionTerminates ==
  (call[1] \in {"_resolve_exec_val", "resolveStringReferences"} /\ result # None)
    => result \notin {Loops, Thrown}

\* C13: a resolver applied to the value it returned, with the same arena,
\* returns that value again.
C13_Idempotent == call[1] = "again" => result = call[5]

\* a chain of two pointers resolved by hyly._resolve_exec_val, and the value
\* it returned resolved again
C13_Witness ==
  /\ call[1] = "again"
  /\ call[2] = "_resolve_exec_val"
  /\ IsStr(call[3]) /\ IsDigitStr(call[3][2]) /\ IndexesSlot(call[3][2], Len(call[4][2]))
  /\ HasInBoundsPointer(call[4][2][NatValue(call[3][2]) + 1], Len(call[4][2]))
  /\ IsStr(call[4][2][NatValue(call[3][2]) + 1])
  /\ result = call[5]


(***************************************************************************)
(* Specification of the x-ray report as a pure function of the execution   *)
(* document that GET /executions/{id}?includeData=true returns             *)
(***************************************************************************)
MaxStart == 3
MaxNodes == 3

NodeNames == <<<<"A">>, <<"B">>, <<"C">>>>
T_digits == <<"4", "2">>
MainOf(item) == JObj(<< <<K_main, JArr(<<JArr(<<item>>)>>)>> >>)

\* the data and inputData of a run, by variant: no data at all; an item
\* with a digit-only field; an item with a digit-only value below headers
\* and an input item holding a digit-only array element
RunPayload(variant) ==
  CASE variant = 1 -> <<>>
    [] variant = 2 ->
         << <<K_data, MainOf(JObj(<< <<K_json, JObj(<< <<K_id, JStr(T_digits)>>,
                                                       <<K_word, JStr(T_word)>> >>)>> >>))>> >>
    [] variant = 3 ->
         << <<K_data, MainOf(JObj(<< <<K_json,
                JObj(<< <<K_headers, JObj(<< <<K_len, JStr(T_digits)>> >>)>> >>)>> >>))>>,
            <<K_inputData, MainOf(JObj(<< <<K_json, JArr(<<JStr(T_digits), JNum(1)>>)>> >>))>> >>

\* one run of a node; start = -1 stands for a run without startTime
RunRecord(start, variant) ==
  JObj((IF start >= 0 THEN << <<K_startTime, JNum(start)>> >> ELSE <<>>)
         \o << <<K_executionTime, JNum(start + 2)>> >>
         \o RunPayload(variant))

RunLists ==
  {JArr(<<>>)} \cup {JArr(<<RunRecord(st, v)>>) : st \in (-1)..MaxStart, v \in 1..3}

Injective(f) == \A a, b \in DOMAIN f : a # b => f[a] # f[b]

\* a runData object: distinct node names in the key order given
RunDataObject(order, runs) ==
  JObj([k \in 1..Len(order) |-> <<NodeNames[order[k]], runs[k]>>])

\* the orders of up to MaxNodes distinct node names
KeyOrders ==
  UNION {{f \in [1..n -> 1..Len(NodeNames)] : Injective(f)} :
         n \in 0..(IF MaxNodes < Len(NodeNames) THEN MaxNodes ELSE Len(NodeNames))}

ApiExecution(runData) ==
  JObj(<< <<K_id, JNum(1)>>,
          <<K_status, JStr(T_success)>>,
          <<K_data, JObj(<< <<K_resultData, JObj(<< <<K_runData, runData>> >>)>> >>)>> >>)

InitXray ==
  /\ DbInit
  /\ result = None
  /\ \E order \in KeyOrders :
       \E runs \in [1..Len(order) -> RunLists] :
         call = <<"xray", ApiExecution(RunDataObject(order, runs)), RunDataObject(order, runs)>>

ApplyXray ==
  /\ call[1] = "xray"
  /\ result = None
  /\ result' = XrayScript(call[2], Dec(1))
  /\ UNCHANGED <<script, execution_entity, execution_data, execution_backtrace, temp_execution_results, call, race>>

NextXray == ApplyXray

SpecXray == InitXray /\ [][NextXray]_vars

(***************************************************************************)
(* Claims about the x-ray report                                           *)
(***************************************************************************)
XrayReported == call[1] = "xray" /\ result # None /\ result[2] = 0
DataFlow == Lookup(result[3][2], K_data_flow)[2]
StepField(k, key) == Lookup(DataFlow[k][2], key)

\* the first run of a node as the execution document holds it
FirstRun(runData, name) == Lookup(runData[2], name)[2][1]
HasFirstRun(runData, name) ==
  HasKey(runData[2], name) /\ Len(Lookup(runData[2], name)[2]) > 0
\* its startTime, -1 when it has none
StartTimeOfRun(run) ==
  IF HasKey(run[2], K_startTime) THEN Lookup(run[2], K_startTime)[2] ELSE -1
StartOfNode(runData, name) == StartTimeOfRun(FirstRun(runData, name))

DistinctPositiveStarts(runData) ==
  /\ Len(runData[2]) > 0
  /\ \A k \in 1..Len(runData[2]) :
       /\ HasFirstRun(runData, runData[2][k][1])
       /\ StartOfNode(runData, runData[2][k][1]) > 0
  /\ \A k, m \in 1..Len(runData[2]) :
       k # m => StartOfNode(runData, runData[2][k][1]) # StartOfNode(runData, runData[2][m][1])

\* C6: for an execution whose nodes have distinct positive start times the
\* data_flow is sorted ascending by start time, goes_to of each step but the
\* last is the node_name of the next step, and goes_to of the last step is
\* "END (final workflow output)".
C6_OrderingInvariant ==
  (call[1] = "xray" /\ result # None /\ DistinctPositiveStarts(call[3])) =>
    /\ result[2] = 0
    /\ Len(DataFlow) = Len(call[3][2])
    /\ \A k \in 1..Len(DataFlow) :
         /\ StepField(k, K_step) = JNum(k)
         /\ HasKey(call[3][2], StepField(k, K_node_name)[2])
         /\ IF k < Len(DataFlow)
            THEN /\ StartOfNode(call[3], StepField(k, K_node_name)[2])
                      < StartOfNode(call[3], StepField(k + 1, K_node_name)[2])
                 /\ StepField(k, K_goes_to) = StepField(k + 1, K_node_name)
            ELSE StepField(k, K_goes_to) = JStr(T_END)

\* a report of three nodes with distinct positive start times whose keys
\* were not in start order
C6_Witness ==
  /\ XrayReported
  /\ DistinctPositiveStarts(call[3])
  /\ Len(DataFlow) = 3
  /\ StartOfNode(call[3], call[3][2][1][1]) > StartOfNode(call[3], call[3][2][3][1])
  /\ StepField(1, K_node_name) = JStr(call[3][2][3][1])

\* C7: no step of the data_flow derives from a run whose startTime is
\* missing or <= 0, and total_nodes counts no such run.
C7_NoStepWithoutStartTime ==
  XrayReported =>
    /\ \A k \in 1..Len(DataFlow) : StartOfNode(call[3], StepField(k, K_node_name)[2]) > 0
    /\ Lookup(Lookup(result[3][2], K_execution_info)[2], K_total_nodes)
         = JNum(Cardinality({k \in 1..Len(call[3][2]) :
                               /\ HasFirstRun(call[3], call[3][2][k][1])
                               /\ StartOfNode(call[3], call[3][2][k][1]) > 0}))

RECURSIVE DigitStringsIn(_, _)
\* the digit-only strings nested in v, each with the path that leads to it
DigitStringsIn(v, path) ==
  CASE IsStr(v) -> IF IsDigitStr(v[2]) THEN {<<path, v[2]>>} ELSE {}
    [] IsArr(v) -> UNION {DigitStringsIn(v[2][k], Append(path, k)) : k \in 1..Len(v[2])}
    [] IsObj(v) -> UNION {DigitStringsIn(v[2][k][2], Append(path, v[2][k][1])) :
                            k \in 1..Len(v[2])}
    [] OTHER -> {}

\* C9: a digit-only string inside an input or output item that indexes no
\* slot of the arena given to resolveStringReferences (the x-ray gives it
\* the empty arena) is emitted unchanged at the same place.
C9_DigitStringEmittedUnchanged ==
  XrayReported =>
    \A k \in 1..Len(DataFlow) :
      LET run == FirstRun(call[3], StepField(k, K_node_name)[2])
          rawOut == IF HasKey(run[2], K_data)
                    THEN Lookup(Lookup(run[2], K_data)[2], K_main)[2][1] ELSE JNull
          rawIn == IF HasKey(run[2], K_inputData)
                   THEN Lookup(Lookup(run[2], K_inputData)[2], K_main)[2][1] ELSE JNull
      IN /\ DigitStringsIn(rawOut, <<>>) \subseteq DigitStringsIn(StepField(k, K_output), <<>>)
         /\ DigitStringsIn(rawIn, <<>>) \subseteq DigitStringsIn(StepField(k, K_input), <<>>)


(***************************************************************************)
(* hyly.build_execution_backtrace                                          *)
(***************************************************************************)
K_name == <<"n", "a", "m", "e">>
K_nodes == <<"n", "o", "d", "e", "s">>

\* a row of hyly.execution_backtrace (created_at left out)
BacktraceRow(execution_id, step_index, node_uuid, node_name, input_json, output_json, next_node_uuid, next_node_name) ==
  [execution_id |-> execution_id, step_index |-> step_index,
   node_uuid |-> node_uuid, node_name |-> node_name,
   input_json |-> input_json, output_json |-> output_json,
   next_node_uuid |-> next_node_uuid, next_node_name |-> next_node_name]

RowsOf(table, x) == {r \in table : r.execution_id = x}

\* the DELETE without its WHERE clause
DeleteBacktrace_All(table, p_execution_id) == {}

\* DELETE FROM hyly.execution_backtrace WHERE execution_id = p_execution_id
DeleteBacktrace(table, p_execution_id) == table \ RowsOf(table, p_execution_id)

\* the INSERT into a table without the primary key
InsertBacktrace_NoKey(table, row) ==
  IF IsSqlNull(row.step_index) \/ IsSqlNull(row.node_name)
  THEN Error("null value violates not-null constraint")
  ELSE Ok(table \cup {row})

\* INSERT INTO hyly.execution_backtrace: the new table, or the exception of
\* a violated NOT NULL column or of the primary key (execution_id, step_index)
InsertBacktrace(table, row) ==
  IF IsSqlNull(row.step_index) \/ IsSqlNull(row.node_name)
  THEN Error("null value violates not-null constraint")
  ELSE IF \E r \in table : r.execution_id = row.execution_id /\ r.step_index = row.step_index
  THEN Error("duplicate key value violates unique constraint execution_backtrace_pkey")
  ELSE Ok(table \cup {row})

RECURSIVE FindRunDataIdx_FromZero(_, _, _)
\* the scan with run_data_idx starting at 0 instead of -1
FindRunDataIdx_FromZero(exec_data, i, len) ==
  IF i > len - 1 THEN SqlInt(0)
  ELSE LET slot == JsonbArrayElement(exec_data, SqlInt(i))
       IN IF IsObj(slot) /\ IsTrue(JsonbExists(slot, K_runData))
          THEN CastInt(JsonbObjectFieldText(slot, K_runData))
          ELSE FindRunDataIdx_FromZero(exec_data, i + 1, len)

RECURSIVE FindRunDataIdx(_, _, _)
\* lines 91-98: the int value of runData in the first object that has the
\* key, -1 when no slot has it, or the exception of the cast
FindRunDataIdx(exec_data, i, len) ==
  IF i > len - 1 THEN SqlInt(-1)
  ELSE LET slot == JsonbArrayElement(exec_data, SqlInt(i))
       IN IF IsObj(slot) /\ IsTrue(JsonbExists(slot, K_runData))
          THEN CastInt(JsonbObjectFieldText(slot, K_runData))
          ELSE FindRunDataIdx(exec_data, i + 1, len)

\* the order of the one-letter node names under ORDER BY key
CharRank(c) == CHOOSE k \in 1..Len(NodeNames) : NodeNames[k] = <<c>>
RECURSIVE TextLess(_, _)
TextLess(a, b) ==
  IF Len(b) = 0 THEN FALSE
  ELSE IF Len(a) = 0 THEN TRUE
  ELSE IF a[1] # b[1] THEN CharRank(a[1]) < CharRank(b[1])
  ELSE TextLess(Tail(a), Tail(b))

RECURSIVE SortedKeys(_)
\* array_agg(key ORDER BY key) over a set of keys
SortedKeys(keys) ==
  IF keys = {} THEN <<>>
  ELSE LET least == CHOOSE a \in keys : \A b \in keys \ {a} : TextLess(a, b)
       IN <<least>> \o SortedKeys(keys \ {least})

\* line 107: node_names, NULL when jsonb_object_keys returns no row
NodeNamesOf(run_data) ==
  IF IsSqlNull(run_data) THEN SqlNull
  ELSE IF ~IsObj(run_data) THEN Error("cannot call jsonb_object_keys on a non-object")
  ELSE IF Len(run_data[2]) = 0 THEN SqlNull
  ELSE SortedKeys({run_data[2][k][1] : k \in 1..Len(run_data[2])})

RECURSIVE ResolveOutputItems(_, _, _, _)
\* lines 160-170: FOR j IN 0..(jsonb_array_length(output_array)-1)
ResolveOutputItems(exec_data, output_array, j, len) ==
  IF j > len - 1 THEN Ok(<<>>)
  ELSE LET item_idx == CastInt(JsonbArrayElementText(output_array, SqlInt(j)))
       IN IF IsError(item_idx) THEN item_idx
          ELSE LET item == JsonbArrayElement(exec_data, item_idx)
                   resolved == _resolve_exec_val(item, exec_data)
                   rest == ResolveOutputItems(exec_data, output_array, j + 1, len)
               IN IF ~IsOk(resolved) THEN resolved
                  ELSE IF ~IsOk(rest) THEN rest
                  ELSE Ok(<<resolved[2]>> \o rest[2])

\* lines 146-173: resolved_output of a node, or an exception
ResolvedOutput(exec_data, exec_data_obj) ==
  IF ~IsTrue(JsonbExists(exec_data_obj, K_data)) THEN Ok(<<>>)
  ELSE LET data_idx == CastInt(JsonbObjectFieldText(exec_data_obj, K_data))
           node_data_obj == JsonbArrayElement(exec_data, data_idx)
       IN IF IsError(data_idx) THEN data_idx
          ELSE IF ~IsTrue(JsonbExists(node_data_obj, K_main)) THEN Ok(<<>>)
          ELSE LET main_idx == CastInt(JsonbObjectFieldText(node_data_obj, K_main))
                   main_data == JsonbArrayElement(exec_data, main_idx)
                   main_len == jsonb_array_length(main_data)
               IN IF IsError(main_idx) THEN main_idx
                  ELSE IF IsError(main_len) THEN main_len
                  ELSE IF IsSqlNull(main_len) \/ ~(main_len[2] > 0) THEN Ok(<<>>)
                  ELSE LET output_arr_idx == CastInt(JsonbObjectFieldText(main_data, K_zero))
                           output_array == JsonbArrayElement(exec_data, output_arr_idx)
                           out_len == jsonb_array_length(output_array)
                       IN IF IsError(output_arr_idx) THEN output_arr_idx
                          ELSE IF IsError(out_len) THEN out_len
                          ELSE IF IsSqlNull(out_len)
                          THEN Error("upper bound of FOR loop cannot be null")
                          ELSE ResolveOutputItems(exec_data, output_array, 0, out_len[2])

Coalesce(v, fallback) == IF IsSqlNull(v) THEN fallback ELSE v

\* a node detail is <<nodeName, output, startTime, executionTime, executionStatus>>
\* lines 129-187 for one node: Ok(<<>>) when the node is skipped,
\* Ok(<<detail>>) when it is stored, or an exception
NodeDetail(exec_data, run_data, node_name) ==
  LET node_ptr == JsonbObjectFieldText(run_data, node_name)
  IN IF IsSqlNull(node_ptr) \/ ~IsDigitStr(node_ptr[2]) THEN Ok(<<>>)
     ELSE LET node_exec_idx == CastInt(node_ptr)
          IN IF IsError(node_exec_idx) THEN node_exec_idx
             ELSE IF ~(node_exec_idx[2] < Len(exec_data[2])) THEN Ok(<<>>)
             ELSE LET node_info == JsonbArrayElement(exec_data, node_exec_idx)
                      info_len == jsonb_array_length(node_info)
                  IN IF IsError(info_len) THEN info_len
                     ELSE IF IsSqlNull(info_len) \/ ~(info_len[2] > 0) THEN Ok(<<>>)
                     ELSE LET first == CastInt(JsonbObjectFieldText(node_info, K_zero))
                              exec_data_obj == JsonbArrayElement(exec_data, first)
                              start_time == CastBigint(JsonbObjectFieldText(exec_data_obj, K_startTime))
                              exec_time == CastInt(JsonbObjectFieldText(exec_data_obj, K_executionTime))
                              output == ResolvedOutput(exec_data, exec_data_obj)
                          IN IF IsError(first) THEN first
                             ELSE IF IsError(start_time) THEN start_time
                             ELSE IF IsError(exec_time) THEN exec_time
                             ELSE IF ~IsOk(output) THEN output
                             ELSE Ok(<< <<node_name,
                                          IF Len(output[2]) > 0 THEN JArr(output[2]) ELSE SqlNull,
                                          Coalesce(start_time, SqlInt(0))[2],
                                          Coalesce(exec_time, SqlInt(0))[2],
                                          Coalesce(JsonbObjectFieldText(exec_data_obj, K_executionStatus),
                                                   Text(T_success))[2]>> >>)

\* two parts of a loop in order: the first exception raised, or the
\* elements both have appended
Appended(first, rest) ==
  IF ~IsOk(first) THEN first
  ELSE IF ~IsOk(rest) THEN rest
  ELSE Ok(first[2] \o rest[2])

RECURSIVE NodeDetails(_, _, _)
\* lines 114-189: FOREACH node_name IN ARRAY node_names
NodeDetails(exec_data, run_data, node_names) ==
  IF Len(node_names) = 0 THEN Ok(<<>>)
  ELSE Appended(NodeDetail(exec_data, run_data, node_names[1]),
                NodeDetails(exec_data, run_data, Tail(node_names)))

RECURSIVE InsertDetailByStart(_, _)
InsertDetailByStart(sorted, d) ==
  IF Len(sorted) = 0 THEN <<d>>
  ELSE IF d[3] < sorted[1][3] THEN <<d>> \o sorted
  ELSE <<sorted[1]>> \o InsertDetailByStart(Tail(sorted), d)

RECURSIVE SortDetails(_, _)
SortDetails(sorted, ds) ==
  IF Len(ds) = 0 THEN sorted ELSE SortDetails(InsertDetailByStart(sorted, ds[1]), Tail(ds))

\* lines 192-195: the details with startTime > 0 ordered by startTime, NULL
\* when none is left (array_agg over no row)
OrderedDetails(node_details) ==
  LET kept == SelectSeq(node_details, LAMBDA d : d[3] > 0)
  IN IF Len(kept) = 0 THEN SqlNull ELSE SortDetails(<<>>, kept)


HexChars == Digits \cup {"a", "b", "c", "d", "e", "f", "A", "B", "C", "D", "E", "F"}
\* text::uuid succeeds: 8-4-4-4-12 hexadecimal digits
IsUuidText(cs) ==
  /\ Len(cs) = 36
  /\ \A k \in 1..36 : IF k \in {9, 14, 19, 24} THEN cs[k] = "-" ELSE cs[k] \in HexChars

RECURSIVE UuidOfNode(_, _, _)
\* lines 221-237, one of the two lookups: the id of the last node of the
\* list that has the name, NULL when the cast raises (EXCEPTION WHEN others)
UuidOfNode(nodes, name, found) ==
  IF Len(nodes) = 0 THEN found
  ELSE LET node == nodes[1]
           id == JsonbObjectFieldText(node, K_id)
           here == IF JsonbObjectFieldText(node, K_name) = Text(name)
                   THEN (IF ~IsSqlNull(id) /\ ~IsUuidText(id[2]) THEN SqlNull ELSE id)
                   ELSE found
       IN UuidOfNode(Tail(nodes), name, here)

\* lines 207-239: <<node_uuid, next_uuid>> or the exception of
\* jsonb_array_elements
NodeUuids(wf_data, name, next_node) ==
  IF IsSqlNull(wf_data) THEN Ok(<<SqlNull, SqlNull>>)
  ELSE LET nodes == JsonbObjectField(wf_data, K_nodes)
       IN IF IsSqlNull(nodes) THEN Ok(<<SqlNull, SqlNull>>)
          ELSE IF ~IsArr(nodes) THEN Error("cannot extract elements from a non-array")
          ELSE Ok(<<UuidOfNode(nodes[2], name, SqlNull),
                    IF IsSqlNull(next_node) THEN SqlNull
                    ELSE UuidOfNode(nodes[2], next_node[2], SqlNull)>>)

RECURSIVE InsertSteps(_, _, _, _, _)
\* lines 198-255: FOR i IN 1..array_length(node_details, 1), one INSERT each;
\* the table after the last INSERT, or an exception
InsertSteps(table, p_execution_id, wf_data, node_details, i) ==
  IF i > Len(node_details) THEN Ok(table)
  ELSE LET node_info == node_details[i]
           next_node == IF i < Len(node_details) THEN Text(node_details[i + 1][1]) ELSE SqlNull
           uuids == NodeUuids(wf_data, node_info[1], next_node)
       IN IF ~IsOk(uuids) THEN uuids
          ELSE LET inserted ==
                     InsertBacktrace(table,
                       BacktraceRow(p_execution_id, SqlInt(i - 1), uuids[2][1], Text(node_info[1]),
                                    JObj(<<>>), node_info[2], uuids[2][2], next_node))
               IN IF IsError(inserted) THEN inserted
                  ELSE InsertSteps(inserted[2], p_execution_id, wf_data, node_details, i + 1)

\* The statements of the function in order, each group given the values
\* the statements before it have computed: <<outcome, table>>, the table
\* being the one the statements have produced so far.

\* lines 198-258, the INSERTs done: the number of steps and the table
BuildWritten(cleared, node_details, written) ==
  IF IsError(written) THEN <<written, cleared>>
  ELSE <<Ok(Len(node_details)), written[2]>>

\* lines 197-255 on the ordered details
\* the loop of line 198 as a loop that runs zero times over a NULL array
BuildInsert_EmptyLoop(p_execution_id, exec_row, cleared, node_details) ==
  IF IsSqlNull(node_details) THEN <<Ok(0), cleared>>
  ELSE BuildWritten(cleared, node_details,
         InsertSteps(cleared, p_execution_id, exec_row.workflowData, node_details, 1))

BuildInsert(p_execution_id, exec_row, cleared, node_details) ==
  IF IsSqlNull(node_details)
  THEN <<Error("upper bound of FOR loop cannot be null"), cleared>>
  ELSE BuildWritten(cleared, node_details,
         InsertSteps(cleared, p_execution_id, exec_row.workflowData, node_details, 1))

\* lines 191-255 on the details the FOREACH loop has collected
BuildOrder(p_execution_id, exec_row, cleared, collected) ==
  IF ~IsOk(collected) THEN <<collected, cleared>>
  ELSE BuildInsert(p_execution_id, exec_row, cleared, OrderedDetails(collected[2]))

\* lines 109-255 on the node names
BuildWalk(p_execution_id, exec_row, cleared, run_data, node_names) ==
  IF IsError(node_names) THEN <<node_names, cleared>>
  ELSE IF IsSqlNull(node_names)
  THEN <<Error("FOREACH expression must not be null"), cleared>>
  ELSE BuildOrder(p_execution_id, exec_row, cleared,
         NodeDetails(exec_row.data, run_data, node_names))

\* lines 100-255 on the index the scan has found
BuildRunData(p_execution_id, exec_row, cleared, run_data_idx) ==
  IF IsError(run_data_idx) THEN <<run_data_idx, cleared>>
  ELSE IF run_data_idx = SqlInt(-1)
  THEN <<Error("No runData found in array for executionId"), cleared>>
  ELSE BuildWalk(p_execution_id, exec_row, cleared,
         JsonbArrayElement(exec_row.data, run_data_idx),
         NodeNamesOf(JsonbArrayElement(exec_row.data, run_data_idx)))

\* lines 90-255 after the DELETE
BuildScan(p_execution_id, exec_row, cleared, len) ==
  IF IsError(len) THEN <<len, cleared>>
  ELSE BuildRunData(p_execution_id, exec_row, cleared,
         FindRunDataIdx(exec_row.data, 0, len[2]))

\* lines 76-258
BuildStatements(p_execution_id, exec_row, table) ==
  IF IsSqlNull(exec_row.data) THEN <<Error("No execution data for executionId"), table>>
  ELSE BuildScan(p_execution_id, exec_row, DeleteBacktrace(table, p_execution_id),
         jsonb_array_length(exec_row.data))

\* the table a call leaves when it raises: the function runs inside the
\* statement that calls it and has no EXCEPTION block around the DELETE, so
\* the exception aborts the statement and undoes all its changes
RolledBack(before, during) == before

\* the outcome of the statement that called the function
Settled(before, run) ==
  IF IsOk(run[1]) THEN run ELSE <<run[1], RolledBack(before, run[2])>>

\* the function with its changes kept when it raises
build_execution_backtrace_NoRollback(p_execution_id, exec_row, table) ==
  BuildStatements(p_execution_id, exec_row, table)

\* hyly.build_execution_backtrace(p_execution_id): <<outcome, table>>
build_execution_backtrace(p_execution_id, exec_row, table) ==
  Settled(table, BuildStatements(p_execution_id, exec_row, table))


(***************************************************************************)
(* hyly.build_execution_backtrace_api                                      *)
(***************************************************************************)
T_placeholder == <<"E", "X", "T", "E", "R", "N", "A", "L", "_", "P", "R", "O", "C", "E", "S", "S", "I", "N", "G", "_", "R", "E", "Q", "U", "I", "R", "E", "D">>
K_message == <<"m", "e", "s", "s", "a", "g", "e">>
K_endpoint == <<"e", "n", "d", "p", "o", "i", "n", "t">>
T_call_external == <<"C", "a", "l", "l", " ", "e", "x", "t", "e", "r", "n", "a", "l", " ", "A", "P", "I">>
T_endpoint_url == <<"h", "t", "t", "p", ":", "/", "/", "1", "7", "2", ".", "2", "3", ".", "0", ".", "9", ":", "3", "0", "0", "1", "/", "e", "x", "e", "c", "u", "t", "i", "o", "n", "/">>

StagedFor(temp, x) == {t \in temp : t.execution_id = x}

RECURSIVE InsertFlowSteps(_, _, _, _)
\* lines 350-369: one INSERT per element of data_flow
InsertFlowSteps(table, p_execution_id, steps, k) ==
  IF k > Len(steps) THEN Ok(table)
  ELSE LET flow_step == steps[k]
           step == CastInt(JsonbObjectFieldText(flow_step, K_step))
           goes_to == JsonbObjectFieldText(flow_step, K_goes_to)
       IN IF IsError(step) THEN step
          ELSE LET inserted ==
                     InsertBacktrace(table,
                       BacktraceRow(p_execution_id,
                                    IF IsSqlNull(step) THEN SqlNull ELSE SqlInt(step[2] - 1),
                                    SqlNull,
                                    JsonbObjectFieldText(flow_step, K_node_name),
                                    JsonbObjectField(flow_step, K_input),
                                    JsonbObjectField(flow_step, K_output),
                                    SqlNull,
                                    IF goes_to = Text(T_END) THEN SqlNull ELSE goes_to))
               IN IF IsError(inserted) THEN inserted
                  ELSE InsertFlowSteps(inserted[2], p_execution_id, steps, k + 1)

\* the statements of the function in order: <<outcome, table, temp>>
\* the function without the DELETE of line 343: the staged result stays
BuildApiStatements_KeepsStaged(p_execution_id, table, temp) ==
  LET cleared == DeleteBacktrace(table, p_execution_id)
  IN IF StagedFor(temp, p_execution_id) # {}
     THEN LET execution_json == (CHOOSE t \in StagedFor(temp, p_execution_id) : TRUE).execution_json
              consumed == temp
              data_flow == JsonbObjectField(execution_json, K_data_flow)
          IN IF IsSqlNull(data_flow) THEN <<Ok(0), cleared, consumed>>
             ELSE IF ~IsArr(data_flow)
             THEN <<Error("cannot extract elements from a non-array"), cleared, consumed>>
             ELSE LET written == InsertFlowSteps(cleared, p_execution_id, data_flow[2], 1)
                  IN IF IsError(written) THEN <<written, cleared, consumed>>
                     ELSE <<Ok(Len(data_flow[2])), written[2], consumed>>
     ELSE LET written ==
                InsertBacktrace(cleared,
                  BacktraceRow(p_execution_id, SqlInt(0), SqlNull, Text(T_placeholder),
                               JObj(<< <<K_message, JStr(T_call_external)>> >>),
                               JObj(<< <<K_endpoint, JStr(T_endpoint_url \o Dec(p_execution_id))>> >>),
                               SqlNull, SqlNull))
          IN <<Ok(0), written[2], temp>>

\* hyly.build_execution_backtrace_api(p_execution_id): <<outcome, table, temp>>
BuildApiStatements(p_execution_id, table, temp) ==
  LET cleared == DeleteBacktrace(table, p_execution_id)
  IN IF StagedFor(temp, p_execution_id) # {}
     THEN LET execution_json == (CHOOSE t \in StagedFor(temp, p_execution_id) : TRUE).execution_json
              consumed == temp \ StagedFor(temp, p_execution_id)
              data_flow == JsonbObjectField(execution_json, K_data_flow)
          IN IF IsSqlNull(data_flow) THEN <<Ok(0), cleared, consumed>>
             ELSE IF ~IsArr(data_flow)
             THEN <<Error("cannot extract elements from a non-array"), cleared, consumed>>
             ELSE LET written == InsertFlowSteps(cleared, p_execution_id, data_flow[2], 1)
                  IN IF IsError(written) THEN <<written, cleared, consumed>>
                     ELSE <<Ok(Len(data_flow[2])), written[2], consumed>>
     ELSE LET written ==
                InsertBacktrace(cleared,
                  BacktraceRow(p_execution_id, SqlInt(0), SqlNull, Text(T_placeholder),
                               JObj(<< <<K_message, JStr(T_call_external)>> >>),
                               JObj(<< <<K_endpoint, JStr(T_endpoint_url \o Dec(p_execution_id))>> >>),
                               SqlNull, SqlNull))
          IN <<Ok(0), written[2], temp>>

\* hyly.build_execution_backtrace_api(p_execution_id): <<outcome, table, temp>>
build_execution_backtrace_api(p_execution_id, table, temp) ==
  LET run == BuildApiStatements(p_execution_id, table, temp)
  IN IF IsOk(run[1]) THEN run ELSE <<run[1], RolledBack(table, run[2]), RolledBack(temp, run[3])>>

(***************************************************************************)
(* N8nApiClient.analyzeExecutionPath                                       *)
(***************************************************************************)
K_success == <<"s", "u", "c", "c", "e", "s", "s">>
K_path == <<"p", "a", "t", "h">>
K_totalNodes == <<"t", "o", "t", "a", "l", "N", "o", "d", "e", "s">>
K_nodeName == <<"n", "o", "d", "e", "N", "a", "m", "e">>
T_NotAvailable == <<"E", "x", "e", "c", "u", "t", "i", "o", "n", " ", "d", "a", "t", "a", " ", "n", "o", "t", " ", "a", "v", "a", "i", "l", "a", "b", "l", "e">>
T_IndexNotFound == <<"R", "u", "n", "D", "a", "t", "a", " ", "i", "n", "d", "e", "x", " ", "n", "o", "t", " ", "f", "o", "u", "n", "d", " ", "i", "n", " ", "e", "x", "e", "c", "u", "t", "i", "o", "n">>

Failure(message) == JObj(<< <<K_success, JBool(FALSE)>>, <<K_error, JStr(message)>> >>)

\* executionData.length of the parsed document
JsLength(v) == IF IsArr(v) \/ IsStr(v) THEN Len(v[2]) ELSE 0

\* parseInt of a string or a number; NaN is Undefined here
ParseInt(v) ==
  IF IsNum(v) THEN v
  ELSE IF IsStr(v) /\ IsDigitStr(v[2]) THEN JNum(NatValue(v[2]))
  ELSE IF IsStr(v) /\ Len(v[2]) > 1 /\ v[2][1] = "-" /\ IsDigitStr(Tail(v[2]))
       THEN JNum(0 - NatValue(Tail(v[2])))
  ELSE Undefined

RECURSIVE FindRunDataIndex(_, _)
\* lines 238-246: -1, the parsed index, or the TypeError of reading a
\* property of null
FindRunDataIndex(executionData, i) ==
  IF ~(i < JsLength(executionData)) THEN JNum(-1)
  ELSE LET slot == JsGet(executionData, Dec(i))
       IN IF slot = JNull THEN Thrown
          ELSE IF (IsObj(slot) \/ IsArr(slot)) /\ ~Falsy(JsGet(slot, K_runData))
          THEN ParseInt(JsGet(slot, K_runData))
          ELSE FindRunDataIndex(executionData, i + 1)

RECURSIVE ExecutionPath(_)
\* lines 259-271: one entry per node whose value is a non-empty array
ExecutionPath(entries) ==
  IF Len(entries) = 0 THEN <<>>
  ELSE LET nodeExecution == entries[1][2]
           rest == ExecutionPath(Tail(entries))
       IN IF rest = Thrown THEN Thrown
          ELSE IF IsArr(nodeExecution) /\ Len(nodeExecution[2]) > 0
          THEN LET nodeData == nodeExecution[2][1]
               IN IF nodeData = JNull THEN Thrown
                  ELSE << <<entries[1][1], JsGet(nodeData, K_startTime)>> >> \o rest
          ELSE rest

RECURSIVE InsertPathEntry(_, _)
InsertPathEntry(sorted, e) ==
  IF Len(sorted) = 0 THEN <<e>>
  ELSE IF IsNum(e[2]) /\ IsNum(sorted[1][2]) /\ sorted[1][2][2] - e[2][2] > 0
       THEN <<e>> \o sorted
  ELSE <<sorted[1]>> \o InsertPathEntry(Tail(sorted), e)

RECURSIVE SortPath(_, _)
\* executionPath.sort by new Date(startTime).getTime(): stable, and a
\* comparison with a missing startTime (NaN) moves nothing
SortPath(sorted, es) ==
  IF Len(es) = 0 THEN sorted ELSE SortPath(InsertPathEntry(sorted, es[1]), Tail(es))

\* analyzeExecutionPath(id) on the data of the execution the API returned:
\* the object returned, or Thrown for `throw handleN8nApiError(error)`
analyzeExecutionPath(data) ==
  IF IsSqlNull(data) THEN Failure(T_NotAvailable)
  ELSE LET runDataIndex == FindRunDataIndex(data, 0)
       IN IF runDataIndex = Thrown THEN Thrown
          ELSE IF runDataIndex = JNum(-1) THEN Failure(T_IndexNotFound)
          ELSE LET runData == IF runDataIndex = Undefined \/ runDataIndex[2] < 0 THEN Undefined
                              ELSE JsGet(data, Dec(runDataIndex[2]))
               IN IF runData = Undefined \/ runData = JNull THEN Thrown
                  ELSE LET executionPath ==
                             ExecutionPath(IF IsObj(runData) THEN runData[2]
                                           ELSE IF IsArr(runData)
                                           THEN [k \in 1..Len(runData[2]) |-> <<Dec(k - 1), runData[2][k]>>]
                                           ELSE <<>>)
                       IN IF executionPath = Thrown THEN Thrown
                          ELSE JObj(<< <<K_success, JBool(TRUE)>>,
                                       <<K_path, JArr([k \in 1..Len(executionPath) |->
                                                         JObj(<< <<K_nodeName, JStr(SortPath(<<>>, executionPath)[k][1])>>,
                                                                 <<K_startTime, SortPath(<<>>, executionPath)[k][2]>> >>)])>>,
                                       <<K_totalNodes, JNum(Len(executionPath))>> >>)


(***************************************************************************)
(* The database and the calls made on it                                   *)
(***************************************************************************)
MaxDbNodes == 2

Ptr(k) == JStr(Dec(k))

\* the seven slots of one node whose runs array is slot b: runs, run record,
\* data, main, output array, item, json
NodeSlots(b, start) ==
  << JArr(<<Ptr(b + 1)>>),
     JObj((IF start > 0 THEN << <<K_startTime, JNum(start)>> >> ELSE <<>>)
            \o << <<K_executionTime, JNum(50)>>, <<K_data, Ptr(b + 2)>> >>),
     JObj(<< <<K_main, Ptr(b + 3)>> >>),
     JArr(<<Ptr(b + 4)>>),
     JArr(<<Ptr(b + 5)>>),
     JObj(<< <<K_json, Ptr(b + 6)>> >>),
     JObj(<< <<K_id, JNum(42)>> >>) >>

RECURSIVE AllNodeSlots(_, _)
AllNodeSlots(starts, k) ==
  IF k > Len(starts) THEN <<>>
  ELSE NodeSlots(3 + 7 * (k - 1), starts[k]) \o AllNodeSlots(starts, k + 1)

\* the arena the platform stores for a run of the nodes NodeNames[1..n]
\* with the start times given (0: the run has no startTime): the root, the
\* resultData object, the RunDataMap, then the slots of each node
TraceArena(starts) ==
  JArr(<< JObj(<< <<K_resultData, Ptr(1)>> >>),
          JObj(<< <<K_runData, Ptr(2)>> >>),
          JObj([k \in 1..Len(starts) |-> <<NodeNames[k], Ptr(3 + 7 * (k - 1))>>]) >>
       \o AllNodeSlots(starts, 1))

TraceArenas ==
  {TraceArena([k \in 1..n |-> first + k - 1]) : n \in 1..MaxDbNodes, first \in 0..1}

\* arenas without a RunDataIndex entry, and one whose entry points nowhere
NoRunDataArenas ==
  {JArr(<<>>), JArr(<<JObj(<< <<K_resultData, Ptr(1)>> >>), JObj(<<>>), JStr(T_word)>>)}
DanglingArenas == {JArr(<<JObj(<< <<K_runData, Ptr(5)>> >>)>>)}

DbArenas == TraceArenas \cup NoRunDataArenas \cup DanglingArenas

NoExecutionData == [data |-> SqlNull, workflowData |-> SqlNull]

\* the documents an external process may stage for execution x: the x-ray
\* report of a run of two nodes, and the error document of a run without nodes
StagedDocuments(x) ==
  {XrayProgram(ApiExecution(runData), Dec(x))[2] :
     runData \in {RunDataObject(<<>>, <<>>),
                  RunDataObject(<<2, 1>>, <<JArr(<<RunRecord(2, 2)>>), JArr(<<RunRecord(1, 3)>>)>>)}}

Init ==
  /\ execution_data = [x \in ExecIds |-> NoExecutionData]
  /\ execution_backtrace = {}
  /\ temp_execution_results = {}
  /\ result = None
  /\ call = None
  /\ race = None
  /\ execution_entity = None
  /\ script = None

\* the platform stores or rewrites the data of execution x
PlatformWrite(x) ==
  /\ \E arena \in DbArenas :
       execution_data' = [execution_data EXCEPT ![x] = [data |-> arena, workflowData |-> SqlNull]]
  /\ result' = <<"write", x, None>>
  /\ UNCHANGED <<script, execution_entity, execution_backtrace, temp_execution_results, call, race>>

\* an external process stages a result for x (execution_id is the primary key)
StageResult(x) ==
  /\ StagedFor(temp_execution_results, x) = {}
  /\ \E doc \in StagedDocuments(x) :
       temp_execution_results' =
         temp_execution_results \cup {[execution_id |-> x, execution_json |-> doc]}
  /\ result' = <<"stage", x, None>>
  /\ UNCHANGED <<script, execution_entity, execution_data, execution_backtrace, call, race>>

\* SELECT hyly.build_execution_backtrace(x)
BuildBacktrace(x) ==
  LET run == build_execution_backtrace(x, execution_data[x], execution_backtrace)
  IN /\ execution_backtrace' = run[2]
     /\ result' = <<"build_execution_backtrace", x, run[1]>>
     /\ UNCHANGED <<script, execution_entity, execution_data, temp_execution_results, call, race>>

\* SELECT hyly.build_execution_backtrace_api(x)
BuildBacktraceApi(x) ==
  LET run == build_execution_backtrace_api(x, execution_backtrace, temp_execution_results)
  IN /\ execution_backtrace' = run[2]
     /\ temp_execution_results' = run[3]
     /\ result' = <<"build_execution_backtrace_api", x, run[1]>>
     /\ UNCHANGED <<script, execution_entity, execution_data, call, race>>

\* client.analyzeExecutionPath(x)
AnalyzeExecutionPath(x) ==
  /\ result' = <<"analyzeExecutionPath", x, analyzeExecutionPath(execution_data[x].data)>>
  /\ UNCHANGED <<script, execution_entity, execution_data, execution_backtrace, temp_execution_results, call, race>>

Next ==
  \E x \in ExecIds :
    \/ PlatformWrite(x)
    \/ StageResult(x)
    \/ BuildBacktrace(x)
    \/ BuildBacktraceApi(x)
    \/ AnalyzeExecutionPath(x)

Spec == Init /\ [][Next]_vars

(***************************************************************************)
(* Claims about the persister                                              *)
(***************************************************************************)
Called(fn) == result # None /\ result[1] = fn
DataOf(x) == execution_data[x].data

\* no slot of the arena is an object with a runData field
NoRunDataObject(arena) ==
  /\ IsArr(arena)
  /\ \A k \in 1..Len(arena[2]) : ~(IsObj(arena[2][k]) /\ HasKey(arena[2][k][2], K_runData))

\* C1: on an execution whose arena holds no object with a runData field,
\* hyly.build_execution_backtrace raises "No runData found" and
\* analyzeExecutionPath returns success = false; neither completes as a success.
C1_NoRunDataFails ==
  /\ (Called("build_execution_backtrace") /\ NoRunDataObject(DataOf(result[2])))
       => result[3] = Error("No runData found in array for executionId")
  /\ (Called("analyzeExecutionPath") /\ NoRunDataObject(DataOf(result[2])))
       => result[3] = Failure(T_IndexNotFound)

C1_Witness ==
  /\ Called("analyzeExecutionPath")
  /\ NoRunDataObject(DataOf(result[2]))
  /\ Len(DataOf(result[2])[2]) > 0
  /\ result[3] = Failure(T_IndexNotFound)


\* the run record of the k-th node of the RunDataMap, found by following the
\* pointers RunDataMap -> runs -> runs[0] the way the platform wrote them
Slot(arena, ptr) == arena[2][NatValue(ptr[2]) + 1]
RunDataMapOf(arena) ==
  Slot(arena, Lookup((CHOOSE slot \in {arena[2][k] : k \in 1..Len(arena[2])} :
                        IsObj(slot) /\ HasKey(slot[2], K_runData))[2], K_runData))
RunRecordOf(arena, k) == Slot(arena, Slot(arena, RunDataMapOf(arena)[2][k][2])[2][1])
\* the nodes of the arena whose run has a positive startTime: the steps of
\* the flow of the execution
TimedNodes(arena) ==
  {k \in 1..Len(RunDataMapOf(arena)[2]) :
     /\ HasKey(RunRecordOf(arena, k)[2], K_startTime)
     /\ Lookup(RunRecordOf(arena, k)[2], K_startTime)[2] > 0}

C5_OtherExecutionsUntouched ==
  [][result'[1] \in {"build_execution_backtrace", "build_execution_backtrace_api"}
       => \A y \in ExecIds \ {result'[2]} :
            /\ RowsOf(execution_backtrace', y) = RowsOf(execution_backtrace, y)
            /\ StagedFor(temp_execution_results', y) = StagedFor(temp_execution_results, y)]_vars

\* a persist operation for one execution has run while another execution
\* had a stored trace and a staged result
C5_Witness ==
  /\ Called("build_execution_backtrace_api")
  /\ IsOk(result[3])
  /\ result[3][2] > 0
  /\ \E y \in ExecIds \ {result[2]} :
       /\ RowsOf(execution_backtrace, y) # {}
       /\ StagedFor(temp_execution_results, y) # {}


(***************************************************************************)
(* Two persist operations for one execution that are not serialized: each  *)
(* statement takes effect on the shared table as soon as it runs, and a    *)
(* statement that raises ends its operation with nothing undone.           *)
(***************************************************************************)
Procs == {1, 2}
RaceId == 1

InitRace ==
  /\ execution_data = [x \in ExecIds |->
                         IF x = RaceId
                         THEN [data |-> TraceArena(<<1, 2>>), workflowData |-> SqlNull]
                         ELSE NoExecutionData]
  /\ execution_backtrace = {}
  /\ temp_execution_results = {}
  /\ result = None
  /\ call = None
  /\ race = [pc |-> [p \in Procs |-> "idle"],
             fn |-> [p \in Procs |-> "none"],
             todo |-> [p \in Procs |-> <<>>],
             inserted |-> [p \in Procs |-> 0],
             whole |-> [p \in Procs |-> {}],
             raced |-> FALSE]
  /\ execution_entity = None
  /\ script = None

\* p calls one of the two persist functions for RaceId
RaceCall(p) ==
  /\ race.pc[p] = "idle"
  /\ \E fn \in {"build_execution_backtrace", "build_execution_backtrace_api"} :
       race' = [race EXCEPT !.pc[p] = "delete", !.fn[p] = fn]
  /\ UNCHANGED <<script, execution_entity, execution_data, execution_backtrace, temp_execution_results, result, call>>

\* the DELETE of p (01-hyly.sql:88 and :333); it races when the other
\* operation has run some of its INSERTs and not yet the last
RaceDelete(p) ==
  /\ race.pc[p] = "delete"
  /\ execution_backtrace' = DeleteBacktrace(execution_backtrace, RaceId)
  /\ race' = [race EXCEPT
                !.pc[p] = IF race.fn[p] = "build_execution_backtrace" THEN "walk" ELSE "take",
                !.raced = race.raced
                            \/ \E q \in Procs \ {p} :
                                 race.pc[q] = "insert" /\ race.inserted[q] > 0]
  /\ UNCHANGED <<script, execution_entity, execution_data, temp_execution_results, result, call>>

\* lines 336-348 and 375-376 of build_execution_backtrace_api: the staged
\* result is read and removed, and the rows to insert are known
RaceTake(p) ==
  /\ race.pc[p] = "take"
  /\ LET alone == BuildApiStatements(RaceId, {}, temp_execution_results)
         staged == StagedFor(temp_execution_results, RaceId)
         data_flow == IF staged = {} THEN SqlNull
                      ELSE JsonbObjectField((CHOOSE t \in staged : TRUE).execution_json, K_data_flow)
         todo == IF staged = {} THEN <<None>>
                 ELSE IF IsSqlNull(data_flow) \/ ~IsArr(data_flow) THEN <<>>
                 ELSE data_flow[2]
     IN /\ temp_execution_results' = alone[3]
        /\ race' = [race EXCEPT
                      !.pc[p] = IF ~IsSqlNull(data_flow) /\ ~IsArr(data_flow) THEN "failed"
                                ELSE IF todo = <<>> THEN "done" ELSE "insert",
                      !.todo[p] = todo,
                      !.whole[p] = IF IsOk(alone[1]) THEN alone[2] ELSE {}]
  /\ UNCHANGED <<script, execution_entity, execution_data, execution_backtrace, result, call>>

\* one INSERT of build_execution_backtrace_api: a step of the flow (lines
\* 353-368) or the placeholder row (lines 377-390)
RaceInsert(p) ==
  /\ race.pc[p] = "insert"
  /\ LET written == IF race.todo[p][1] = None
                    THEN BuildApiStatements(RaceId, execution_backtrace \ RowsOf(execution_backtrace, RaceId), {})
                    ELSE <<InsertFlowSteps(execution_backtrace, RaceId, <<race.todo[p][1]>>, 1)>>
         placed == IF race.todo[p][1] = None
                   THEN InsertBacktrace(execution_backtrace,
                          CHOOSE r \in written[2] : r.node_name = Text(T_placeholder))
                   ELSE written[1]
     IN IF IsError(placed)
        THEN /\ race' = [race EXCEPT !.pc[p] = "failed"]
             /\ UNCHANGED execution_backtrace
        ELSE /\ execution_backtrace' = placed[2]
             /\ race' = [race EXCEPT
                           !.pc[p] = IF Len(race.todo[p]) = 1 THEN "done" ELSE "insert",
                           !.todo[p] = Tail(race.todo[p]),
                           !.inserted[p] = race.inserted[p] + 1]
  /\ UNCHANGED <<script, execution_entity, execution_data, temp_execution_results, result, call>>

\* lines 90-255 of build_execution_backtrace, after its DELETE
RaceWalk(p) ==
  /\ race.pc[p] = "walk"
  /\ LET run == BuildStatements(RaceId, execution_data[RaceId], execution_backtrace)
     IN IF IsOk(run[1])
        THEN /\ execution_backtrace' = run[2]
             /\ race' = [race EXCEPT !.pc[p] = "done", !.whole[p] = RowsOf(run[2], RaceId)]
        ELSE /\ race' = [race EXCEPT !.pc[p] = "failed"]
             /\ UNCHANGED execution_backtrace
  /\ UNCHANGED <<script, execution_entity, execution_data, temp_execution_results, result, call>>

\* an external process stages a result for RaceId
RaceStage ==
  /\ StagedFor(temp_execution_results, RaceId) = {}
  /\ \E doc \in StagedDocuments(RaceId) :
       temp_execution_results' =
         temp_execution_results \cup {[execution_id |-> RaceId, execution_json |-> doc]}
  /\ UNCHANGED <<script, execution_entity, execution_data, execution_backtrace, result, call, race>>

NextRace ==
  \/ RaceStage
  \/ \E p \in Procs :
       \/ RaceCall(p)
       \/ RaceDelete(p)
       \/ RaceTake(p)
       \/ RaceInsert(p)
       \/ RaceWalk(p)

SpecRace == InitRace /\ [][NextRace]_vars

\* both operations have ended
RaceAtRest == \A p \in Procs : race.pc[p] \in {"done", "failed"}
\* the rows stored for RaceId are not the complete step list of either operation
RaceCorrupted ==
  /\ RowsOf(execution_backtrace, RaceId) # {}
  /\ \A p \in Procs : RowsOf(execution_backtrace, RaceId) # race.whole[p]

K_executionId == <<"e", "x", "e", "c", "u", "t", "i", "o", "n", "I", "d">>
K_nodeId == <<"n", "o", "d", "e", "I", "d">>
K_outputIndex == <<"o", "u", "t", "p", "u", "t", "I", "n", "d", "e", "x">>
K_metadata == <<"m", "e", "t", "a", "d", "a", "t", "a">>
K_itemCount == <<"i", "t", "e", "m", "C", "o", "u", "n", "t">>
K_value == <<"v", "a", "l", "u", "e">>
T_RunDataIndexNotFound == <<"R", "u", "n", "D", "a", "t", "a", " ", "i", "n", "d", "e", "x", " ", "n", "o", "t", " ", "f", "o", "u", "n", "d">>
T_NodeNotFound(nodeId) == <<"N", "o", "d", "e", " ", "'">> \o nodeId \o <<"'", " ", "n", "o", "t", " ", "f", "o", "u", "n", "d", " ", "i", "n", " ", "e", "x", "e", "c", "u", "t", "i", "o", "n">>
T_NoExecutionData(nodeId) == <<"N", "o", " ", "e", "x", "e", "c", "u", "t", "i", "o", "n", " ", "d", "a", "t", "a", " ", "f", "o", "r", " ", "n", "o", "d", "e", " ", "'">> \o nodeId \o <<"'">>
T_NoOutputData(outputIndex, nodeId) == <<"N", "o", " ", "o", "u", "t", "p", "u", "t", " ", "d", "a", "t", "a", " ", "a", "t", " ", "i", "n", "d", "e", "x", " ">> \o Dec(outputIndex) \o <<" ", "f", "o", "r", " ", "n", "o", "d", "e", " ", "'">> \o nodeId \o <<"'">>

\* lines 347-348: executionData[parseInt(nodeData.data.main[outputIndex][0])]
NodeOutputData(executionData, slot) ==
  IF ParseInt(JsGet(slot, K_zero)) = Undefined THEN Undefined
  ELSE IF ParseInt(JsGet(slot, K_zero))[2] < 0 THEN Undefined
  ELSE JsGet(executionData, Dec(ParseInt(JsGet(slot, K_zero))[2]))

\* lines 338-360 on the first run of the node: the output slot and the result
NodeOutputResult(executionData, executionId, nodeId, outputIndex, nodeData, main) ==
  IF Falsy(JsGet(nodeData, K_data)) \/ Falsy(main) \/ Falsy(JsGet(main, Dec(outputIndex)))
  THEN Failure(T_NoOutputData(outputIndex, nodeId))
  ELSE JObj(<< <<K_success, JBool(TRUE)>>,
               <<K_executionId, JStr(Dec(executionId))>>,
               <<K_nodeId, JStr(nodeId)>>,
               <<K_outputIndex, JNum(outputIndex)>>,
               <<K_data, NodeOutputData(executionData, JsGet(main, Dec(outputIndex)))>>,
               <<K_metadata,
                 JObj(<< <<K_startTime, JsGet(nodeData, K_startTime)>>,
                         <<K_executionTime, JsGet(nodeData, K_executionTime)>>,
                         <<K_itemCount,
                           IF IsArr(NodeOutputData(executionData, JsGet(main, Dec(outputIndex))))
                           THEN JNum(Len(NodeOutputData(executionData,
                                                        JsGet(main, Dec(outputIndex)))[2]))
                           ELSE JNum(1)>> >>)>> >>)

\* lines 319-336 on the RunDataMap
NodeOutputOf(executionData, executionId, nodeId, outputIndex, runData) ==
  IF runData = Undefined \/ runData = JNull THEN Thrown
  ELSE IF Falsy(JsGet(runData, nodeId)) THEN Failure(T_NodeNotFound(nodeId))
  ELSE IF ~IsArr(JsGet(runData, nodeId)) \/ Len(JsGet(runData, nodeId)[2]) = 0
  THEN Failure(T_NoExecutionData(nodeId))
  ELSE IF JsGet(JsGet(runData, nodeId), K_zero) = JNull THEN Thrown
  ELSE NodeOutputResult(executionData, executionId, nodeId, outputIndex,
         JsGet(JsGet(runData, nodeId), K_zero),
         IF Falsy(JsGet(JsGet(JsGet(runData, nodeId), K_zero), K_data)) THEN Undefined
         ELSE JsGet(JsGet(JsGet(JsGet(runData, nodeId), K_zero), K_data), K_main))

\* lines 301-317 on the index the scan has found
NodeOutputFrom(executionData, executionId, nodeId, outputIndex, runDataIndex) ==
  IF runDataIndex = Thrown THEN Thrown
  ELSE IF runDataIndex = JNum(-1) THEN Failure(T_RunDataIndexNotFound)
  ELSE NodeOutputOf(executionData, executionId, nodeId, outputIndex,
         IF runDataIndex = Undefined \/ runDataIndex[2] < 0 THEN Undefined
         ELSE JsGet(executionData, Dec(runDataIndex[2])))

\* client.getNodeOutput(executionId, nodeId, outputIndex) on the data of the
\* execution the API returned: the object returned, or Thrown
N8nApiClient_getNodeOutput(data, executionId, nodeId, outputIndex) ==
  IF IsSqlNull(data) THEN Failure(T_NotAvailable)
  ELSE NodeOutputFrom(data, executionId, nodeId, outputIndex, FindRunDataIndex(data, 0))

(***************************************************************************)
(* The tool handlers handleAnalyzeExecutionPath and handleGetNodeOutput    *)
(***************************************************************************)
T_NotConfigured == <<"n", "8", "n", " ", "A", "P", "I", " ", "n", "o", "t", " ", "c", "o", "n", "f", "i", "g", "u", "r", "e", "d", ".", " ", "P", "l", "e", "a", "s", "e", " ", "s", "e", "t", " ", "N", "8", "N", "_", "A", "P", "I", "_", "U", "R", "L", " ", "a", "n", "d", " ", "N", "8", "N", "_", "A", "P", "I", "_", "K", "E", "Y", " ", "e", "n", "v", "i", "r", "o", "n", "m", "e", "n", "t", " ", "v", "a", "r", "i", "a", "b", "l", "e", "s", ".">>
T_IdRequired == <<"E", "x", "e", "c", "u", "t", "i", "o", "n", " ", "I", "D", " ", "i", "s", " ", "r", "e", "q", "u", "i", "r", "e", "d">>
T_BothRequired == <<"B", "o", "t", "h", " ", "e", "x", "e", "c", "u", "t", "i", "o", "n", "I", "d", " ", "a", "n", "d", " ", "n", "o", "d", "e", "I", "d", " ", "a", "r", "e", " ", "r", "e", "q", "u", "i", "r", "e", "d">>
T_PathAnalyzed == <<"E", "x", "e", "c", "u", "t", "i", "o", "n", " ", "p", "a", "t", "h", " ", "a", "n", "a", "l", "y", "z", "e", "d", " ", "f", "o", "r", " ", "e", "x", "e", "c", "u", "t", "i", "o", "n", " ">>
T_OutputRetrieved(nodeId, executionId) == <<"N", "o", "d", "e", " ", "o", "u", "t", "p", "u", "t", " ", "r", "e", "t", "r", "i", "e", "v", "e", "d", " ", "f", "o", "r", " ">> \o nodeId \o <<" ", "i", "n", " ", "e", "x", "e", "c", "u", "t", "i", "o", "n", " ">> \o executionId
T_CaughtError == <<"U", "n", "k", "n", "o", "w", "n", " ", "e", "r", "r", "o", "r", " ", "o", "c", "c", "u", "r", "r", "e", "d">>

\* the return after the await and the catch clause of both handlers: what the
\* client returned goes into data of a response with success true, what it
\* threw becomes a response with success false
ToolResponse(outcome, message) ==
  IF outcome = Thrown THEN Failure(T_CaughtError)
  ELSE JObj(<< <<K_success, JBool(TRUE)>>, <<K_data, outcome>>, <<K_message, JStr(message)>> >>)

\* handleAnalyzeExecutionPath({id}) with the client configured or not, on
\* the data of the execution the API returns
handleAnalyzeExecutionPath(configured, id, data) ==
  IF ~configured THEN Failure(T_NotConfigured)
  ELSE IF Falsy(JStr(id)) THEN Failure(T_IdRequired)
  ELSE ToolResponse(analyzeExecutionPath(data), T_PathAnalyzed \o id)

\* handleGetNodeOutput({executionId, nodeId}), outputIndex defaulting to 0
handleGetNodeOutput(configured, executionId, nodeId, data) ==
  IF ~configured THEN Failure(T_NotConfigured)
  ELSE IF Falsy(JStr(nodeId)) THEN Failure(T_BothRequired)
  ELSE ToolResponse(N8nApiClient_getNodeOutput(data, executionId, nodeId, 0),
                    T_OutputRetrieved(nodeId, Dec(executionId)))

\* a tool call analyze_execution_path for execution x, or without the id
HandleAnalyzeExecutionPath(x) ==
  /\ \E configured \in BOOLEAN, id \in {Dec(x), <<>>} :
       result' = <<"handleAnalyzeExecutionPath", x,
                   handleAnalyzeExecutionPath(configured, id, execution_data[x].data)>>
  /\ UNCHANGED <<script, execution_entity, execution_data, execution_backtrace, temp_execution_results, call, race>>

\* a tool call get_node_output for execution x and node A, node C or no node
HandleGetNodeOutput(x) ==
  /\ \E configured \in BOOLEAN, nodeId \in {NodeNames[1], NodeNames[3], <<>>} :
       result' = <<"handleGetNodeOutput", x,
                   handleGetNodeOutput(configured, x, nodeId, execution_data[x].data)>>
  /\ UNCHANGED <<script, execution_entity, execution_data, execution_backtrace, temp_execution_results, call, race>>

(***************************************************************************)
(* The auto-backtrace trigger on public.execution_entity                   *)
(***************************************************************************)
T_uuid == <<"1", "1", "1", "1", "1", "1", "1", "1", "-", "2", "2", "2", "2", "-", "3", "3", "3", "3", "-", "4", "4", "4", "4", "-", "5", "5", "5", "5", "5", "5", "5", "5", "5", "5", "5", "5">>
T_uuidB == <<"a", "a", "a", "a", "a", "a", "a", "a", "-", "b", "b", "b", "b", "-", "c", "c", "c", "c", "-", "d", "d", "d", "d", "-", "e", "e", "e", "e", "e", "e", "e", "e", "e", "e", "e", "e">>

\* the arena [ {"runData": "1"}, {"A": "2"}, ["3"], {"startTime": 1000,
\* "executionTime": 50, "data": "4"}, {"main": "5"}, ["6"], ["7"],
\* [{"value": 42}] ]
ExampleArena ==
  JArr(<< JObj(<< <<K_runData, Ptr(1)>> >>),
          JObj(<< <<NodeNames[1], Ptr(2)>> >>),
          JArr(<<Ptr(3)>>),
          JObj(<< <<K_startTime, JNum(1000)>>, <<K_executionTime, JNum(50)>>, <<K_data, Ptr(4)>> >>),
          JObj(<< <<K_main, Ptr(5)>> >>),
          JArr(<<Ptr(6)>>),
          JArr(<<Ptr(7)>>),
          JArr(<<JObj(<< <<K_value, JNum(42)>> >>)>>) >>)

\* a workflowData document: nodes A and B with a UUID as id, node C with an
\* id that is no UUID
ExampleWorkflow ==
  JObj(<< <<K_nodes,
            JArr(<< JObj(<< <<K_name, JStr(NodeNames[1])>>, <<K_id, JStr(T_uuid)>> >>),
                    JObj(<< <<K_name, JStr(NodeNames[2])>>, <<K_id, JStr(T_uuidB)>> >>),
                    JObj(<< <<K_name, JStr(NodeNames[3])>>, <<K_id, JStr(T_word)>> >>) >>)>> >>)

\* the arena of a run in which B and then A started, both at time 1: the
\* RunDataMap enumerates B before A
TiedArena ==
  JArr([TraceArena(<<1, 1>>)[2] EXCEPT
          ![3] = JObj(<< <<NodeNames[2], Ptr(10)>>, <<NodeNames[1], Ptr(3)>> >>)])

\* the example arena with a run record that also has inputData, pointing
\* where its data points
InputArena ==
  JArr([ExampleArena[2] EXCEPT
          ![4] = JObj(<< <<K_startTime, JNum(1000)>>, <<K_executionTime, JNum(50)>>,
                         <<K_data, Ptr(4)>>, <<K_inputData, Ptr(4)>> >>)])

\* the arena of a run of A whose output chain misses a hop: the record has
\* no data field, the data object has no main field, the main array is empty
NoDataArena ==
  JArr([TraceArena(<<1>>)[2] EXCEPT
          ![5] = JObj(<< <<K_startTime, JNum(1)>>, <<K_executionTime, JNum(50)>> >>)])
NoMainArena == JArr([TraceArena(<<1>>)[2] EXCEPT ![6] = JObj(<<>>)])
EmptyMainArena == JArr([TraceArena(<<1>>)[2] EXCEPT ![7] = JArr(<<>>)])
MissingHopArenas == {NoDataArena, NoMainArena, EmptyMainArena}

\* arenas of runs without a step: the RunDataMap has no node, or no node
\* record has a startTime
NoStepArenas == {TraceArena(<<>>), TraceArena(<<0>>), TraceArena(<<0, 0>>)}

\* a workflowData document that lists neither A nor B
UnlistedWorkflow ==
  JObj(<< <<K_nodes, JArr(<< JObj(<< <<K_name, JStr(NodeNames[3])>>, <<K_id, JStr(T_uuid)>> >>) >>)>> >>)

\* the rows of public.execution_data an execution may have
AutoRows ==
  {NoExecutionData,
   [data |-> ExampleArena, workflowData |-> ExampleWorkflow],
   [data |-> TraceArena(<<1, 2>>), workflowData |-> ExampleWorkflow],
   [data |-> TraceArena(<<1, 2>>), workflowData |-> SqlNull],
   [data |-> TraceArena(<<1, 2>>), workflowData |-> UnlistedWorkflow],
   [data |-> TraceArena(<<1, 2, 3>>), workflowData |-> ExampleWorkflow],
   [data |-> TiedArena, workflowData |-> ExampleWorkflow],
   [data |-> InputArena, workflowData |-> ExampleWorkflow],
   [data |-> JArr(<<>>), workflowData |-> SqlNull],
   [data |-> JArr(<<JNull>>), workflowData |-> SqlNull]}
  \cup {[data |-> arena, workflowData |-> SqlNull] : arena \in NoStepArenas}
  \cup {[data |-> arena, workflowData |-> SqlNull] : arena \in MissingHopArenas}

InitAuto ==
  /\ execution_data \in
       {[x \in ExecIds |-> IF x = 1 THEN row ELSE other] :
          row \in AutoRows,
          other \in {NoExecutionData, [data |-> ExampleArena, workflowData |-> ExampleWorkflow]}}
  /\ execution_backtrace = {}
  /\ temp_execution_results = {}
  /\ result = None
  /\ call = None
  /\ race = None
  /\ execution_entity = [x \in ExecIds |-> [finished |-> FALSE, debug |-> FALSE]]
  /\ script = None

\* hyly.trigger_auto_backtrace() for the row NEW: <<the backtrace was run,
\* <<outcome, table>> >>; an exception raised by PERFORM leaves the function
\* at once
trigger_auto_backtrace_NoTag(NEW_id, has_debug_tag, exec_row, table) ==
  <<TRUE, BuildStatements(NEW_id, exec_row, table)>>

trigger_auto_backtrace(NEW_id, has_debug_tag, exec_row, table) ==
  IF has_debug_tag
  THEN <<TRUE, BuildStatements(NEW_id, exec_row, table)>>
  ELSE <<FALSE, <<Ok(0), table>> >>

\* the trigger execution_entity_auto_backtrace: AFTER UPDATE FOR EACH ROW
\* WHEN (OLD.finished = false AND NEW.finished = true)
execution_entity_auto_backtrace(OLD_row, NEW_row, NEW_id, exec_row, table) ==
  IF OLD_row.finished = FALSE /\ NEW_row.finished = TRUE
  THEN trigger_auto_backtrace(NEW_id, NEW_row.debug, exec_row, table)
  ELSE <<FALSE, <<Ok(0), table>> >>

\* the UPDATE statement with its trigger: an exception raised in the trigger
\* aborts the statement, and neither the row nor the backtrace changes
UpdateSettled(x, finished, fired) ==
  /\ IF IsOk(fired[2][1])
     THEN /\ execution_entity' = [execution_entity EXCEPT ![x].finished = finished]
          /\ execution_backtrace' = fired[2][2]
     ELSE UNCHANGED <<execution_entity, execution_backtrace>>
  /\ result' = <<"update", x, fired[2][1], fired[1], finished>>

\* the platform runs UPDATE public.execution_entity SET finished = ... WHERE id = x
UpdateEntity(x) ==
  /\ \E finished \in BOOLEAN :
       UpdateSettled(x, finished,
         execution_entity_auto_backtrace(execution_entity[x],
           [execution_entity[x] EXCEPT !.finished = finished],
           x, execution_data[x], execution_backtrace))
  /\ UNCHANGED <<script, execution_data, temp_execution_results, call, race>>

\* the tag debug is put on or taken off the workflow of execution x
TagWorkflow(x) ==
  /\ execution_entity' = [execution_entity EXCEPT ![x].debug = ~execution_entity[x].debug]
  /\ result' = <<"tag", x, None>>
  /\ UNCHANGED <<script, execution_data, execution_backtrace, temp_execution_results, call, race>>

\* client.getNodeOutput(x, 'A')
GetNodeOutput(x) ==
  /\ result' = <<"getNodeOutput", x,
                 N8nApiClient_getNodeOutput(execution_data[x].data, x, NodeNames[1], 0)>>
  /\ UNCHANGED <<script, execution_entity, execution_data, execution_backtrace, temp_execution_results, call, race>>

NextAuto ==
  \E x \in ExecIds :
    \/ UpdateEntity(x)
    \/ TagWorkflow(x)
    \/ BuildBacktrace(x)
    \/ BuildBacktraceApi(x)
    \/ GetNodeOutput(x)
    \/ HandleAnalyzeExecutionPath(x)
    \/ HandleGetNodeOutput(x)

SpecAuto == InitAuto /\ [][NextAuto]_vars


(***************************************************************************)
(* What the trace of the worked example is                                 *)
(***************************************************************************)
\* the output of node A in the example arena: [{"value": 42}]
ExampleOutput == JArr(<<JObj(<< <<K_value, JNum(42)>> >>)>>)

ExampleRow == [data |-> ExampleArena, workflowData |-> ExampleWorkflow]

\* C14: for the example arena, node A is extracted with startTime 1000,
\* executionTime 50 and output exactly [{"value": 42}]: the row that
\* build_execution_backtrace persists for A carries that output, and the
\* result of getNodeOutput carries the output and both times
C14_ExampleExtracted ==
  /\ (Called("build_execution_backtrace") /\ execution_data[result[2]] = ExampleRow)
       => /\ IsOk(result[3])
          /\ \E r \in RowsOf(execution_backtrace, result[2]) :
               /\ r.node_name = Text(NodeNames[1])
               /\ r.output_json = ExampleOutput
  /\ (Called("getNodeOutput") /\ execution_data[result[2]] = ExampleRow)
       => /\ JsGet(result[3], K_success) = JBool(TRUE)
          /\ JsGet(result[3], K_data) = ExampleOutput
          /\ JsGet(JsGet(result[3], K_metadata), K_startTime) = JNum(1000)
          /\ JsGet(JsGet(result[3], K_metadata), K_executionTime) = JNum(50)


\* C15: reconstruction is deterministic and breaks ties in startTime by the
\* enumeration order of the RunDataMap: for the run data {B, A}, both started
\* at time 1, the persisted steps are B and then A
C15_TiesInEnumerationOrder ==
  (Called("build_execution_backtrace") /\ DataOf(result[2]) = TiedArena)
    => /\ IsOk(result[3])
       /\ \E b, a \in RowsOf(execution_backtrace, result[2]) :
            /\ b.node_name = Text(NodeNames[2])
            /\ a.node_name = Text(NodeNames[1])
            /\ b.step_index < a.step_index


(***************************************************************************)
(* What the persister of staged results reports                            *)
(***************************************************************************)
PlaceholderRows(table, x) == {r \in RowsOf(table, x) : r.node_name = Text(T_placeholder)}

\* C16: build_execution_backtrace_api(X) completes successfully only when
\* the rows stored for X are the steps of a flow: never with zero rows and
\* never with the placeholder row
C16_ApiFailsWithoutFlow ==
  (Called("build_execution_backtrace_api") /\ IsOk(result[3]))
    => /\ RowsOf(execution_backtrace, result[2]) # {}
       /\ PlaceholderRows(execution_backtrace, result[2]) = {}


\* hyly.build_execution_backtrace_api(x) is called again right after a call
\* of it for the same x: nothing was staged in between
CalledApiAgain ==
  /\ Called("build_execution_backtrace_api")
  /\ Called("build_execution_backtrace_api")'
  /\ result'[2] = result[2]

\* C17: a second call of build_execution_backtrace_api(X), with no new result
\* staged for X in between, leaves the stored trace for X as the first call
\* wrote it
C17_SecondApiCallKeepsTrace ==
  [][CalledApiAgain
       => RowsOf(execution_backtrace', result[2]) = RowsOf(execution_backtrace, result[2])]_vars


(***************************************************************************)
(* What the auto-backtrace trigger does to the platform's UPDATE           *)
(***************************************************************************)
\* C18: a failure of the analysis inside the auto-backtrace trigger does not
\* unwind into the UPDATE: after an UPDATE that sets finished to true, the
\* row of the execution has finished = true
C18_UpdateTakesEffect ==
  (Called("update") /\ result[5]) => execution_entity[result[2]].finished

\* the step is an UPDATE of the row of execution result'[2]
Updated == Called("update")'

\* C19: the auto-backtrace runs in an UPDATE exactly when finished changes
\* from false to true and the workflow carries the tag debug; any other
\* UPDATE leaves hyly.execution_backtrace unchanged
C19_AutoBacktraceExactlyOnDebugFinish ==
  [][Updated
       => /\ result'[4] <=> /\ ~execution_entity[result'[2]].finished
                            /\ result'[5]
                            /\ execution_entity[result'[2]].debug
          /\ ~result'[4] => execution_backtrace' = execution_backtrace]_vars

C19_Witness ==
  /\ Called("update")
  /\ result[4]
  /\ execution_entity[result[2]].debug
  /\ execution_backtrace # {}

\* C20: for a run of A and then B whose workflowData lists both with a UUID
\* as id, the row persisted for A carries the id of A in node_uuid and the id
\* of B in next_node_uuid
C20_NodeUuidResolved ==
  (Called("build_execution_backtrace")
     /\ execution_data[result[2]] = [data |-> TraceArena(<<1, 2>>), workflowData |-> ExampleWorkflow])
    => /\ IsOk(result[3])
       /\ \E r \in RowsOf(execution_backtrace, result[2]) :
            /\ r.node_name = Text(NodeNames[1])
            /\ r.node_uuid = Text(T_uuid)
            /\ r.next_node_uuid = Text(T_uuidB)


(***************************************************************************)
(* What the rows of build_execution_backtrace carry                        *)
(***************************************************************************)
\* build_execution_backtrace was called for an execution whose data is arena
\* and whose workflowData is wf_data
BuiltOn(arena, wf_data) ==
  /\ Called("build_execution_backtrace")
  /\ execution_data[result[2]] = [data |-> arena, workflowData |-> wf_data]

\* the rows of the execution of the call are one row per node named, and the
\* rows of the nodes in unmatched have node_uuid NULL
StepsWritten(names, unmatched) ==
  /\ IsOk(result[3])
  /\ {r.node_name : r \in RowsOf(execution_backtrace, result[2])} = {Text(n) : n \in names}
  /\ \A r \in RowsOf(execution_backtrace, result[2]) :
       r.node_name \in {Text(n) : n \in unmatched} => IsSqlNull(r.node_uuid)

\* C21: when workflowData is absent, or lists no node of the step's name, or
\* lists it with an id that is no UUID, the step's row is written with
\* node_uuid NULL and the call succeeds with all other steps written
C21_UnmatchedUuidIsNull ==
  /\ BuiltOn(TraceArena(<<1, 2>>), SqlNull)
       => StepsWritten({NodeNames[1], NodeNames[2]}, {NodeNames[1], NodeNames[2]})
  /\ BuiltOn(TraceArena(<<1, 2>>), UnlistedWorkflow)
       => StepsWritten({NodeNames[1], NodeNames[2]}, {NodeNames[1], NodeNames[2]})
  /\ BuiltOn(TraceArena(<<1, 2, 3>>), ExampleWorkflow)
       => StepsWritten({NodeNames[1], NodeNames[2], NodeNames[3]}, {NodeNames[3]})


\* C22: the row persisted for a node stores in input_json the node's input,
\* resolved from inputData as output_json is from data: for a record whose
\* inputData points where its data points, the row of A has the example's
\* output in input_json
C22_InputJsonResolved ==
  BuiltOn(InputArena, ExampleWorkflow)
    => \E r \in RowsOf(execution_backtrace, result[2]) :
         /\ r.node_name = Text(NodeNames[1])
         /\ r.input_json = ExampleOutput


\* C23: when a hop of the node's output chain is missing, the node still
\* yields a step whose output is null and the analysis does not fail
C23_MissingHopGivesNullOutput ==
  \A arena \in MissingHopArenas :
    BuiltOn(arena, SqlNull)
      => /\ IsOk(result[3])
         /\ \E r \in RowsOf(execution_backtrace, result[2]) :
              /\ r.node_name = Text(NodeNames[1])
              /\ IsSqlNull(r.output_json)


(***************************************************************************)
(* The two sinks                                                           *)
(***************************************************************************)
\* the x-ray report of the run of A (startTime 1) and then B (startTime 2),
\* as the platform's API returns that execution
ExampleReport ==
  XrayProgram(ApiExecution(RunDataObject(<<1, 2>>, <<JArr(<<RunRecord(1, 1)>>),
                                                    JArr(<<RunRecord(2, 1)>>)>>)),
              Dec(1))[2]

\* the rows of execution x are the steps of the report's data_flow: step k is
\* the row of step_index k-1, and the END sentinel is a NULL next_node_name
RowsMatchFlow(table, x, data_flow) ==
  /\ Cardinality(RowsOf(table, x)) = Len(data_flow)
  /\ \A k \in 1..Len(data_flow) :
       \E r \in RowsOf(table, x) :
         /\ r.step_index = SqlInt(k - 1)
         /\ r.node_name = Text(JsGet(data_flow[k], K_node_name)[2])
         /\ r.next_node_name = IF JsGet(data_flow[k], K_goes_to) = JStr(T_END) THEN SqlNull
                               ELSE Text(JsGet(data_flow[k], K_goes_to)[2])

\* C24: the rows written by build_execution_backtrace for the run of A and
\* then B are, step by step, the data_flow of the x-ray report of that run
C24_SinksDescribeSameFlow ==
  BuiltOn(TraceArena(<<1, 2>>), ExampleWorkflow)
    => RowsMatchFlow(execution_backtrace, result[2], JsGet(ExampleReport, K_data_flow)[2])


(***************************************************************************)
(* What the tool handlers answer                                           *)
(***************************************************************************)
\* the response of a tool handler
Answered == Called("handleAnalyzeExecutionPath") \/ Called("handleGetNodeOutput")

\* the analysis the response carries has failed
CarriesFailure(response) ==
  /\ JsGet(response, K_data) # Undefined
  /\ JsGet(JsGet(response, K_data), K_success) = JBool(FALSE)

\* C25: the tool handlers answer with success = false whenever the analysis
\* failed: no response with success = true carries a failed analysis
C25_HandlerReportsFailure ==
  Answered => ~(JsGet(result[3], K_success) = JBool(TRUE) /\ CarriesFailure(result[3]))


(***************************************************************************)
(* n8nwf-02-execute.sh                                                     *)
(***************************************************************************)
\* the executions public.execution_entity may come to hold, and the
\* historical averages the script may compute, in units of half a second
MaxExecutions == 3
AvgTimes == {1, 3}
multipliers == <<1, 2, 4, 8>>

\* get_latest_execution_id: the highest id of the workflow's executions, "0"
\* when the query gives nothing
get_latest_execution_id(entity, answered) ==
  IF answered /\ Len(entity) > 0 THEN Len(entity) ELSE 0

\* one round of the loop of wait_for_execution after its sleep: the poll did
\* not see finished, and the loop goes on; after the last multiplier the
\* function ends with a warning and a return value that is not 0
wait_for_execution_Continues(s, interval, seen) ==
  IF seen
  THEN [s EXCEPT !.pc = "report", !.polls = @ + 1, !.waits = Append(@, interval),
                 !.observed = TRUE,
                 !.stdout = Append(@, <<"completed", s.EXECUTION_ID>>)]
  ELSE IF s.polls + 1 = Len(multipliers)
  THEN [s EXCEPT !.pc = "exit", !.exit = 0, !.polls = @ + 1, !.waits = Append(@, interval),
                 !.stdout = Append(Append(@, <<"not finished", s.EXECUTION_ID>>),
                                   <<"id", s.EXECUTION_ID>>)]
  ELSE [s EXCEPT !.polls = @ + 1, !.waits = Append(@, interval),
                 !.stdout = Append(@, <<"not finished", s.EXECUTION_ID>>)]

\* one round of the loop of wait_for_execution after its sleep of interval:
\* seen tells whether check_execution_status gave a row with finished = t
wait_for_execution(s, interval, seen) ==
  IF seen
  THEN [s EXCEPT !.pc = "report", !.polls = @ + 1, !.waits = Append(@, interval),
                 !.observed = TRUE,
                 !.stdout = Append(@, <<"completed", s.EXECUTION_ID>>)]
  ELSE IF s.polls + 1 = Len(multipliers)
  THEN [s EXCEPT !.pc = "exit", !.exit = 1, !.polls = @ + 1, !.waits = Append(@, interval),
                 !.stdout = Append(@, <<"not finished", s.EXECUTION_ID>>)]
  ELSE [s EXCEPT !.polls = @ + 1, !.waits = Append(@, interval),
                 !.stdout = Append(@, <<"not finished", s.EXECUTION_ID>>)]

\* exit is the exit status, -1 while the script runs; own is the id of the
\* execution that the script's own n8n execute started, 0 before that
InitExec ==
  /\ execution_data = [x \in ExecIds |-> NoExecutionData]
  /\ execution_backtrace = {}
  /\ temp_execution_results = {}
  /\ result = None
  /\ call = None
  /\ race = None
  /\ \E n \in 0..1 : execution_entity = [k \in 1..n |-> [finished |-> TRUE, debug |-> FALSE]]
  /\ script = [pc |-> "before", BEFORE_EXEC_ID |-> 0, AFTER_EXEC_ID |-> 0, EXECUTION_ID |-> 0,
               avg_time |-> 0, polls |-> 0, waits |-> <<>>, observed |-> FALSE,
               stdout |-> <<>>, exit |-> -1, own |-> 0]

\* the container check and BEFORE_EXEC_ID=$(get_latest_execution_id ...)
ScriptBefore ==
  /\ script.pc = "before"
  /\ \E running, answered \in BOOLEAN :
       script' = IF ~running THEN [script EXCEPT !.pc = "exit", !.exit = 1]
                 ELSE [script EXCEPT
                         !.pc = "execute",
                         !.BEFORE_EXEC_ID = get_latest_execution_id(execution_entity, answered)]
  /\ UNCHANGED <<execution_entity, execution_data, execution_backtrace, temp_execution_results,
                 result, call, race>>

\* timeout $TIMEOUT docker exec hyly-n8n-app n8n execute: the command fails
\* or times out, or it returns 0 having started the execution of this run
ScriptExecute ==
  /\ script.pc = "execute"
  /\ \/ /\ script' = [script EXCEPT !.pc = "exit", !.exit = 1]
        /\ UNCHANGED execution_entity
     \/ /\ Len(execution_entity) < MaxExecutions
        /\ \E finished \in BOOLEAN :
             execution_entity' = Append(execution_entity, [finished |-> finished, debug |-> FALSE])
        /\ script' = [script EXCEPT !.pc = "after", !.own = Len(execution_entity) + 1]
  /\ UNCHANGED <<execution_data, execution_backtrace, temp_execution_results, result, call, race>>

\* AFTER_EXEC_ID=$(get_latest_execution_id ...), the comparison with
\* BEFORE_EXEC_ID, and the start of wait_for_execution with its average
ScriptAfter ==
  /\ script.pc = "after"
  /\ \E answered \in BOOLEAN, avg_time \in AvgTimes :
       LET latest == get_latest_execution_id(execution_entity, answered)
       IN script' = IF latest > script.BEFORE_EXEC_ID
                    THEN [script EXCEPT !.pc = "wait", !.AFTER_EXEC_ID = latest,
                                        !.EXECUTION_ID = latest, !.avg_time = avg_time,
                                        !.stdout = Append(@, <<"detected", latest>>)]
                    ELSE [script EXCEPT !.pc = "exit", !.exit = 1, !.AFTER_EXEC_ID = latest]
  /\ UNCHANGED <<execution_entity, execution_data, execution_backtrace, temp_execution_results,
                 result, call, race>>

\* one round of the loop of wait_for_execution: sleep, check_execution_status
ScriptWait ==
  /\ script.pc = "wait"
  /\ \E answered \in BOOLEAN :
       script' = wait_for_execution(script, script.avg_time * multipliers[script.polls + 1],
                   answered /\ execution_entity[script.EXECUTION_ID].finished)
  /\ UNCHANGED <<execution_entity, execution_data, execution_backtrace, temp_execution_results,
                 result, call, race>>

\* after wait_for_execution returned 0: the final status, echo "$EXECUTION_ID",
\* the summary and exit 0
ScriptReport ==
  /\ script.pc = "report"
  /\ script' = [script EXCEPT !.pc = "exit", !.exit = 0,
                              !.stdout = Append(@, <<"id", script.EXECUTION_ID>>)]
  /\ UNCHANGED <<execution_entity, execution_data, execution_backtrace, temp_execution_results,
                 result, call, race>>

\* another execution of the same workflow is started (a schedule, a webhook,
\* another run of the script)
OtherExecution ==
  /\ Len(execution_entity) < MaxExecutions
  /\ execution_entity' = Append(execution_entity, [finished |-> FALSE, debug |-> FALSE])
  /\ UNCHANGED <<script, execution_data, execution_backtrace, temp_execution_results,
                 result, call, race>>

\* the platform finishes an execution
PlatformFinish ==
  /\ \E id \in 1..Len(execution_entity) :
       /\ ~execution_entity[id].finished
       /\ execution_entity' = [execution_entity EXCEPT ![id].finished = TRUE]
  /\ UNCHANGED <<script, execution_data, execution_backtrace, temp_execution_results,
                 result, call, race>>

ScriptStep == ScriptBefore \/ ScriptExecute \/ ScriptAfter \/ ScriptWait \/ ScriptReport

NextExec == ScriptStep \/ OtherExecution \/ PlatformFinish

\* the shell runs the script's commands one after the other
SpecExec == InitExec /\ [][NextExec]_vars /\ WF_vars(ScriptStep)


(***************************************************************************)
(* What n8nwf-02-execute.sh waits for and reports                          *)
(***************************************************************************)
\* the execution ids the script has printed on a line of their own
ReportedIds == {script.stdout[k][2] : k \in {j \in 1..Len(script.stdout) : script.stdout[j][1] = "id"}}

\* the script has ended
Exited == script.pc = "exit"

WaitBounded ==
  /\ script.polls <= 4
  /\ script.waits = [k \in 1..script.polls |-> script.avg_time * multipliers[k]]
  /\ script.pc = "wait" => ~script.observed
  /\ script.pc = "report" => script.observed
  /\ script.observed => execution_entity[script.EXECUTION_ID].finished
  /\ (Exited /\ script.polls = 4 /\ ~script.observed) => script.exit = 1
  /\ ReportedIds # {} => script.observed

C27_ReportsOwnExecution == ReportedIds \subseteq {script.own}


(***************************************************************************)
(* The shape of the trace build_execution_backtrace stores                 *)
(***************************************************************************)
\* the rows of execution x are n steps: step_index 0 .. n-1, each once, each
\* row naming the node of the next row, the last row naming none
ChainOfSteps(table, x, n) ==
  /\ Cardinality(RowsOf(table, x)) = n
  /\ {r.step_index : r \in RowsOf(table, x)} = {SqlInt(k) : k \in 0..(n - 1)}
  /\ \A r, q \in RowsOf(table, x) :
       q.step_index = SqlInt(r.step_index[2] + 1) => r.next_node_name = q.node_name
  /\ \A r \in RowsOf(table, x) :
       r.step_index = SqlInt(n - 1) => IsSqlNull(r.next_node_name)

C29_NoEmptySuccess ==
  Called("build_execution_backtrace")
    => /\ IsOk(result[3]) => RowsOf(execution_backtrace, result[2]) # {}
       /\ DataOf(result[2]) \in NoStepArenas => IsError(result[3])

C29_Witness ==
  /\ Called("build_execution_backtrace")
  /\ DataOf(result[2]) = TraceArena(<<0, 0>>)
  /\ IsError(result[3])
  /\ RowsOf(execution_backtrace, result[2]) = {}


(***************************************************************************)
(* What build_execution_backtrace_api consumes                             *)
(***************************************************************************)
\* the rows of execution x come from the staged documents docs: the steps of
\* the data_flow of the staged document, no row when it has no data_flow, and
\* only the placeholder when nothing is staged
RowsComeFrom(table, x, docs) ==
  IF docs = {} THEN RowsOf(table, x) = PlaceholderRows(table, x)
  ELSE \E t \in docs :
         IF JsGet(t.execution_json, K_data_flow) = Undefined THEN RowsOf(table, x) = {}
         ELSE RowsMatchFlow(table, x, JsGet(t.execution_json, K_data_flow)[2])

\* C30: after a completed call of build_execution_backtrace_api(X) no staged
\* row for X remains, and the rows of X come only from the result that was
\* staged for X when the call was made
C30_StagedResultConsumedOnce ==
  [][(Called("build_execution_backtrace_api")' /\ IsOk(result'[3]))
       => /\ StagedFor(temp_execution_results', result'[2]) = {}
          /\ RowsComeFrom(execution_backtrace', result'[2],
                          StagedFor(temp_execution_results, result'[2]))]_vars

C30_Witness ==
  /\ Called("build_execution_backtrace_api")
  /\ IsOk(result[3])
  /\ result[3][2] > 0
  /\ StagedFor(temp_execution_results, result[2]) = {}
  /\ PlaceholderRows(execution_backtrace, result[2]) = {}
  /\ RowsOf(execution_backtrace, result[2]) # {}

====
